---- MODULE Spec2Model ----
(***************************************************************************)
(* A model of the tile-based canvas game: the per-pixel wall collision,    *)
(* the interactable dispatch (door / move / moveRebound), the camera, the  *)
(* key latches and the frame loop of the latest revision of the game       *)
(* script (src/unnamed/part_000, lines 406-897).                           *)
(*                                                                         *)
(* Coordinates.  player.x, player.y, the camera and the rectangles of the  *)
(* interactables are JavaScript numbers and may be fractional (a Tiled     *)
(* float property).  The model keeps every coordinate in units of 1/Scale  *)
(* pixel (half pixels), so that Math.round and the halving in updateCamera *)
(* are computed, not assumed away.  Widths, heights, velocities and cell   *)
(* indices are whole pixels.                                               *)
(***************************************************************************)
EXTENDS Integers, Sequences, FiniteSets, TLC

VARIABLES
    phase,               \* "idle" | "loading" | "running" | "halted" | "failed"
    world,               \* which map documents the server serves (fixed by Init)
    player,              \* [x, y, xVel, yVel, facing, location]
    keysPressed,         \* [up, down, left, right, space]
    camera,              \* [x, y]
    currentInteractable, \* map name -> index of the cached interactable, 0 = null
    timers,              \* pending setTimeout callbacks of moveRebound, oldest first
    ev,                  \* history: what the last frame / timer callback did
    reb,                 \* history: the latest moveRebound activation
    probe,               \* the harness of a function: inputs and result of one call
    audio                \* the AudioEngine instance and the audio context's clock

vars == <<phase, world, player, keysPressed, camera, currentInteractable,
          timers, ev, reb, probe, audio>>

gameVars == <<phase, world, player, keysPressed, camera, currentInteractable,
              timers, ev, reb>>

----------------------------------------------------------------------------
(* Units and rounding *)

\* Coordinates are kept in 1/Scale pixel: the code halves widths (line 663).
Scale == 2

\* n whole pixels, in coordinate units.
Px(n) == n * Scale

\* Math.round of the coordinate v (in 1/Scale pixel): the nearest integer,
\* a tie going up (towards +infinity), as floor(v/Scale + 1/2).
MathRound(v) == (2 * v + Scale) \div (2 * Scale)

Max(a, b) == IF a >= b THEN a ELSE b
Min(a, b) == IF a <= b THEN a ELSE b

----------------------------------------------------------------------------
(* The player's collision mask and a map's collision layer *)

\* player.collisionMap: the ImageData of the mask image, width * height RGBA
\* pixels; alphas is the row-major sequence of the pixels' alpha bytes.
CollisionMap(w, h, alphas) ==
    [width  |-> w,
     height |-> h,
     data   |-> [i \in 0 .. (w * h * 4 - 1) |->
                    IF i % 4 = 3 THEN alphas[(i \div 4) + 1] ELSE 0]]

\* A map without a "Collision" layer keeps collisionLayer: null.
NoLayer == [present |-> FALSE, width |-> 0, height |-> 0, fill |-> 0,
            cells |-> <<>>]

\* A Tiled tile layer: the array data of width * height cells, row-major
\* from index 0, 0 = empty.  The array is kept sparse: cells gives the value
\* of the indices in its domain, every other cell of the array holds fill.
Layer(w, h, fill, cells) ==
    [present |-> TRUE, width |-> w, height |-> h, fill |-> fill,
     cells |-> cells]

\* layer.data[i] for an index i of the array.
Data(layer, i) ==
    IF i \in DOMAIN layer.cells THEN layer.cells[i] ELSE layer.fill

\* checkWallCollision with a truncating Math.floor in place of Math.round.
RECURSIVE ScanFloor(_, _, _, _, _)
ScanFloor(layer, mask, playerX, playerY, i) ==
    IF i >= mask.width * mask.height THEN FALSE
    ELSE
        LET x == i % mask.width
            y == i \div mask.width
            mapX == (playerX + Px(x)) \div Scale
            mapY == (playerY + Px(y)) \div Scale
        IN  IF mask.data[(y * mask.width + x) * 4 + 3] = 0
                THEN ScanFloor(layer, mask, playerX, playerY, i + 1)
            ELSE IF mapX < 0 \/ mapX >= layer.width \/ mapY < 0 \/ mapY >= layer.height
                THEN TRUE
            ELSE IF Data(layer, mapY * layer.width + mapX) # 0
                THEN TRUE
            ELSE ScanFloor(layer, mask, playerX, playerY, i + 1)

\* checkWallCollision without the skip of transparent mask pixels.
RECURSIVE ScanAllPixels(_, _, _, _, _)
ScanAllPixels(layer, mask, playerX, playerY, i) ==
    IF i >= mask.width * mask.height THEN FALSE
    ELSE
        LET x == i % mask.width
            y == i \div mask.width
            mapX == MathRound(playerX + Px(x))
            mapY == MathRound(playerY + Px(y))
        IN  IF mapX < 0 \/ mapX >= layer.width \/ mapY < 0 \/ mapY >= layer.height
                THEN TRUE
            ELSE IF Data(layer, mapY * layer.width + mapX) # 0
                THEN TRUE
            ELSE ScanAllPixels(layer, mask, playerX, playerY, i + 1)

\* The nested loops of checkWallCollision, y outer and x inner, from pixel
\* number i = y * width + x on: the first opaque pixel that lands outside
\* the layer or on a non-zero cell returns true.
RECURSIVE ScanPixels(_, _, _, _, _)
ScanPixels(layer, mask, playerX, playerY, i) ==
    IF i >= mask.width * mask.height THEN FALSE
    ELSE
        LET x == i % mask.width
            y == i \div mask.width
            playerPixelIndex == (y * mask.width + x) * 4
            mapX == MathRound(playerX + Px(x))
            mapY == MathRound(playerY + Px(y))
            tileIndex == mapY * layer.width + mapX
        IN  IF mask.data[playerPixelIndex + 3] = 0
                THEN ScanPixels(layer, mask, playerX, playerY, i + 1)
            ELSE IF mapX < 0 \/ mapX >= layer.width \/ mapY < 0 \/ mapY >= layer.height
                THEN TRUE
            ELSE IF Data(layer, tileIndex) # 0
                THEN TRUE
            ELSE ScanPixels(layer, mask, playerX, playerY, i + 1)

\* checkWallCollision(playerX, playerY) against the collision layer of the
\* current map (NoLayer when the map has none) and the player's mask.
checkWallCollision(layer, mask, playerX, playerY) ==
    IF ~layer.present THEN FALSE
    ELSE ScanPixels(layer, mask, playerX, playerY, 0)

----------------------------------------------------------------------------
(* Interactable objects and their property bags *)

\* A JSON property value: absent (undefined / null), a number or a string.
Undef  == [k |-> "undef", n |-> 0, s |-> ""]
Num(n) == [k |-> "num", n |-> n, s |-> ""]
Str(s) == [k |-> "str", n |-> 0, s |-> s]

\* const undef = (obj) => obj === null || obj === undefined
undef(v) == v.k = "undef"

\* The object getProperties builds from obj.properties: the five keys the
\* code reads.  Destinations are coordinates (1/Scale pixel), reboundTime is
\* in timer ticks.
Bag(type, dX, dY, dMap, rT) ==
    [type |-> type, destinationX |-> dX, destinationY |-> dY,
     destinationMap |-> dMap, reboundTime |-> rT]

EmptyBag == Bag(Undef, Undef, Undef, Undef, Undef)

\* A Tiled object of the Interactables layer: a rectangle (coordinates) and
\* a properties array, which Tiled omits when the object has no property.
Obj(x, y, w, h, hasProps, props) ==
    [x |-> x, y |-> y, width |-> w, height |-> h,
     hasProperties |-> hasProps, properties |-> props]

\* getProperties(obj): null when the object has no properties array, else
\* the object built from its entries.
getProperties(obj) ==
    [isNull |-> ~obj.hasProperties, bag |-> obj.properties]

\* The two map documents loadAssets fetches (mapFiles).
MapNames == {"house1", "outdoors1"}

\* Keys every object literal inherits from Object.prototype: game.maps[k]
\* is a function or an object, not undefined, for these k.
ObjectPrototypeKeys ==
    {"constructor", "toString", "__proto__", "hasOwnProperty", "valueOf",
     "isPrototypeOf", "propertyIsEnumerable", "toLocaleString",
     "__defineGetter__", "__defineSetter__", "__lookupGetter__",
     "__lookupSetter__"}

\* game.maps[name] once the maps are loaded.
MapsLookup(name) ==
    IF name \in MapNames THEN "map"
    ELSE IF name \in ObjectPrototypeKeys THEN "inherited"
    ELSE "undefined"

\* verifyInteractable with an own-property test of the destination map.
verifyOwnMap(interactable) ==
    LET type == interactable.type
        isType(t) == type.k = "str" /\ type.s = t
    IN  IF isType("door") /\ undef(interactable.destinationMap) THEN FALSE
        ELSE IF isType("door") /\ ~(interactable.destinationMap.k = "str"
                     /\ interactable.destinationMap.s \in MapNames) THEN FALSE
        ELSE IF isType("moveRebound") /\ undef(interactable.reboundTime) THEN FALSE
        ELSE IF isType("moveRebound") /\ interactable.reboundTime.k # "num" THEN FALSE
        ELSE IF undef(interactable.destinationX) THEN FALSE
        ELSE IF undef(interactable.destinationY) THEN FALSE
        ELSE IF interactable.destinationX.k # "num" THEN FALSE
        ELSE IF interactable.destinationY.k # "num" THEN FALSE
        ELSE TRUE

\* verifyInteractable without the checks of destinationX / destinationY.
verifyNoDestination(interactable) ==
    LET type == interactable.type
        isType(t) == type.k = "str" /\ type.s = t
    IN  IF isType("door") /\ undef(interactable.destinationMap) THEN FALSE
        ELSE IF isType("door") /\ ~(interactable.destinationMap.k = "str"
                     /\ MapsLookup(interactable.destinationMap.s) # "undefined") THEN FALSE
        ELSE IF isType("moveRebound") /\ undef(interactable.reboundTime) THEN FALSE
        ELSE IF isType("moveRebound") /\ interactable.reboundTime.k # "num" THEN FALSE
        ELSE TRUE

\* verifyInteractable(interactable): the checks in the order of the code.
\* game.maps[destinationMap] of a number or of a name that is no key of
\* game.maps, own or inherited, is undefined.
verifyInteractable(interactable) ==
    LET type == interactable.type
        isType(t) == type.k = "str" /\ type.s = t
    IN  IF isType("door") /\ undef(interactable.destinationMap) THEN FALSE
        ELSE IF isType("door") /\ ~(interactable.destinationMap.k = "str"
                     /\ MapsLookup(interactable.destinationMap.s) # "undefined") THEN FALSE
        ELSE IF isType("moveRebound") /\ undef(interactable.reboundTime) THEN FALSE
        ELSE IF isType("moveRebound") /\ interactable.reboundTime.k # "num" THEN FALSE
        ELSE IF undef(interactable.destinationX) THEN FALSE
        ELSE IF undef(interactable.destinationY) THEN FALSE
        ELSE IF interactable.destinationX.k # "num" THEN FALSE
        ELSE IF interactable.destinationY.k # "num" THEN FALSE
        ELSE TRUE

----------------------------------------------------------------------------
(* The map documents and the sprite: the data loadAssets fetches *)

\* player.acc and player.terminalVel.
acc == 1
terminalVel == 1

\* The position the start button's click handler gives the player.
SpawnX == 77
SpawnY == 42

\* The player's sprite: 2 x 2 pixels, the top-left one transparent.
PlayerMask == CollisionMap(2, 2, <<0, 255, 255, 255>>)

\* The canvas (the viewport of the camera), in pixels.
CanvasWidth == 4
CanvasHeight == 3

\* house1's "Collision" layer, 80 x 45 cells: walls (tile 18) everywhere but
\* a room of 4 x 4 cells in the bottom-right corner of the map and one cell
\* above the room, under which the sprite's transparent corner can tuck.
House1Free ==
    {cy * 80 + cx : cx \in 76 .. 79, cy \in 41 .. 44} \cup {40 * 80 + 77}

House1Collision == Layer(80, 45, 18, [i \in House1Free |-> 0])

\* outdoors1's "Collision" layer, 3 x 3 cells, all empty.
Outdoors1Collision == Layer(3, 3, 0, <<>>)

\* The property bags the variable object of house1 is given, one per world.
VariantBags ==
    << [has |-> TRUE,  bag |-> Bag(Str("sign"), Num(Px(77)), Num(Px(41)), Undef, Undef)],
       [has |-> FALSE, bag |-> EmptyBag],
       [has |-> TRUE,  bag |-> EmptyBag],
       [has |-> TRUE,  bag |-> Bag(Str("sign"), Undef, Undef, Str("outdoors1"), Num(1))],
       [has |-> TRUE,  bag |-> Bag(Undef, Num(Px(77)), Num(Px(41)), Str("outdoors1"), Num(1))],
       [has |-> TRUE,  bag |-> Bag(Str("door"), Num(Px(0)), Num(Px(0)), Undef, Undef)],
       [has |-> TRUE,  bag |-> Bag(Str("door"), Num(Px(0)), Num(Px(0)), Str("cellar"), Undef)],
       [has |-> TRUE,  bag |-> Bag(Str("door"), Num(Px(0)), Num(Px(0)), Num(1), Undef)],
       [has |-> TRUE,  bag |-> Bag(Str("door"), Num(Px(0)), Num(Px(0)), Str("constructor"), Undef)],
       [has |-> TRUE,  bag |-> Bag(Str("door"), Undef, Num(Px(0)), Str("outdoors1"), Undef)],
       [has |-> TRUE,  bag |-> Bag(Str("door"), Num(Px(0)), Str("0"), Str("outdoors1"), Undef)],
       [has |-> TRUE,  bag |-> Bag(Str("move"), Str("77"), Num(Px(41)), Undef, Undef)],
       [has |-> TRUE,  bag |-> Bag(Str("move"), Num(Px(77)), Undef, Undef, Undef)],
       [has |-> TRUE,  bag |-> Bag(Str("moveRebound"), Num(Px(77)), Num(Px(41)), Undef, Undef)],
       [has |-> TRUE,  bag |-> Bag(Str("moveRebound"), Num(Px(77)), Num(Px(41)), Undef, Str("1"))],
       [has |-> TRUE,  bag |-> Bag(Str("moveRebound"), Undef, Num(Px(41)), Undef, Num(1))] >>

\* The interactables a world may place in house1, by name.  Each sits in a
\* corner of the room, so that the sprite overlaps it only near that
\* corner; "under" has the rectangle of "door" and follows it in the list.
House1Object(w, name) ==
    CASE name = "door" ->
           Obj(Px(76), Px(41), Px(1), Px(1), TRUE,
               Bag(Str("door"), Num(Px(0) + 1), Num(Px(0)), Str("outdoors1"), Undef))
      [] name = "under" ->
           Obj(Px(76), Px(41), Px(1), Px(1), TRUE,
               Bag(Str("move"), Num(Px(78)), Num(Px(43)), Undef, Undef))
      [] name = "move" ->
           Obj(Px(79), Px(41), Px(1), Px(1), TRUE,
               Bag(Str("move"), Num(Px(77)), Num(Px(43)), Undef, Undef))
      [] name = "moveHalf" ->
           Obj(Px(79), Px(41), Px(1), Px(1), TRUE,
               Bag(Str("move"), Num(Px(77) + 1), Num(Px(42)), Undef, Undef))
      [] name = "rebound" ->
           Obj(Px(76), Px(44), Px(1), Px(1), TRUE,
               Bag(Str("moveRebound"), Num(Px(77)), Num(Px(42)), Undef, Num(2)))
      [] name = "variant" ->
           Obj(Px(79), Px(44), Px(1), Px(1), VariantBags[w.variant].has,
               VariantBags[w.variant].bag)

\* A world: the objects of house1's Interactables layer in list order
\* (objects), the bag of the variable object (variant), and the user's
\* habits: how many keys are held at once (held) and how many rebounds are
\* left pending at once (pending).
World(objects, variant, held, pending) ==
    [objects |-> objects, variant |-> variant, held |-> held,
     pending |-> pending, interactables |-> TRUE, fault |-> "none"]

\* The world of w whose house1 document has no layer called Interactables.
WithoutInteractables(w) == [w EXCEPT !.interactables = FALSE]

\* What can be wrong with one asset of loadAssets: a sprite or the collision
\* image fails to load (lines 476-488), a map fetch is refused or its body
\* is no JSON (498-499), a background image fails (534), a tileset fetch is
\* refused (543) or answers with an error status (544), a tileset's text is
\* no well-formed XML (547), a tile image fails to load (561).
Faults ==
    {"none", "playerImage", "collisionImage", "mapFetch", "mapJson",
     "backgroundImage", "tilesetFetch", "tilesetStatus", "tilesetXml",
     "tileImage"}

\* The faults on which a promise loadAssets awaits rejects or a statement
\* of it throws.  DOMParser.parseFromString does not throw on ill-formed
\* XML: it returns an error document, in which querySelectorAll('tile')
\* finds nothing, so the loop over the tiles is skipped.
RejectingFaults == Faults \ {"none", "tilesetXml"}

\* loadAssets(): how its promise settles in world w.
loadAssets(w) ==
    IF w.fault \in RejectingFaults THEN "rejected" ELSE "resolved"

\* A world, without objects or keys, for each fault of one asset.
FaultyWorlds ==
    {[World(<<>>, 1, 0, 0) EXCEPT !.fault = f] : f \in Faults \ {"none"}}

House1Objects(w) ==
    [i \in 1 .. Len(w.objects) |-> House1Object(w, w.objects[i])]

\* The interactables of outdoors1: a door back to house1 along the bottom.
Outdoors1Objects ==
    << Obj(Px(0), Px(2), Px(3), Px(1), TRUE,
           Bag(Str("door"), Num(Px(SpawnX)), Num(Px(SpawnY)), Str("house1"), Undef)) >>

\* game.maps[name] of world w: mapData's size in tiles and the tile size, the
\* layers loadAssets finds by name and the objects of the Interactables layer.
MapOf(w, name) ==
    IF name = "house1" THEN
        [width |-> 80, height |-> 45, tilewidth |-> 1, tileheight |-> 1,
         collisionLayer |-> House1Collision,
         hasInteractables |-> w.interactables, objects |-> House1Objects(w)]
    ELSE
        [width |-> 3, height |-> 3, tilewidth |-> 1, tileheight |-> 1,
         collisionLayer |-> Outdoors1Collision,
         hasInteractables |-> TRUE, objects |-> Outdoors1Objects]

\* What game.maps[name] is for a name that is an inherited key: an object
\* with none of a map's fields.
NotAMap ==
    [width |-> 0, height |-> 0, tilewidth |-> 0, tileheight |-> 0,
     collisionLayer |-> NoLayer, hasInteractables |-> FALSE, objects |-> <<>>]

----------------------------------------------------------------------------
(* checkInteractables, updateCamera and the movement physics *)

\* The bounding-box test of checkInteractables for one object.
Overlaps(p, mask, obj) ==
    /\ p.x < obj.x + obj.width
    /\ p.x + Px(mask.width) > obj.x
    /\ p.y < obj.y + obj.height
    /\ p.y + Px(mask.height) > obj.y

\* The loop of checkInteractables without its return: the last object the
\* player's box overlaps wins.
RECURSIVE LastOverlap(_, _, _, _)
LastOverlap(p, mask, objects, i) ==
    IF i > Len(objects) THEN 0
    ELSE LET rest == LastOverlap(p, mask, objects, i + 1)
         IN  IF rest # 0 THEN rest
             ELSE IF Overlaps(p, mask, objects[i]) THEN i
             ELSE 0

\* The for loop of checkInteractables from object number i on: the index of
\* the first object the player's box overlaps, 0 (null) when none does.
RECURSIVE FirstOverlap(_, _, _, _)
FirstOverlap(p, mask, objects, i) ==
    IF i > Len(objects) THEN 0
    ELSE IF Overlaps(p, mask, objects[i]) THEN i
    ELSE FirstOverlap(p, mask, objects, i + 1)

\* checkInteractables(): the value it stores in currentMap.currentInteractable.
checkInteractables(p, mask, map) ==
    IF ~map.hasInteractables THEN 0
    ELSE FirstOverlap(p, mask, map.objects, 1)

\* updateCamera returning early when the map fits the viewport on either axis.
updateCameraEither(cam, p, mask, map) ==
    LET mapWidth == map.width * map.tilewidth
        mapHeight == map.height * map.tileheight
        x == (p.x + Px(mask.width) \div 2) - Px(CanvasWidth) \div 2
        y == (p.y + Px(mask.height) \div 2) - Px(CanvasHeight) \div 2
    IN  IF mapWidth <= CanvasWidth \/ mapHeight <= CanvasHeight THEN cam
        ELSE [x |-> Max(0, Min(x, Px(mapWidth - CanvasWidth))),
              y |-> Max(0, Min(y, Px(mapHeight - CanvasHeight)))]

\* updateCamera centring the viewport on the player's corner.
updateCameraCorner(cam, p, mask, map) ==
    LET mapWidth == map.width * map.tilewidth
        mapHeight == map.height * map.tileheight
        x == p.x - Px(CanvasWidth) \div 2
        y == p.y - Px(CanvasHeight) \div 2
    IN  IF mapWidth <= CanvasWidth /\ mapHeight <= CanvasHeight THEN cam
        ELSE [x |-> Max(0, Min(x, Px(mapWidth - CanvasWidth))),
              y |-> Max(0, Min(y, Px(mapHeight - CanvasHeight)))]

\* updateCamera(): the camera it leaves.  The map's pixel size is compared
\* with the canvas; the centred position is clamped on both axes.
updateCamera(cam, p, mask, map) ==
    LET mapWidth == map.width * map.tilewidth
        mapHeight == map.height * map.tileheight
        x == (p.x + Px(mask.width) \div 2) - Px(CanvasWidth) \div 2
        y == (p.y + Px(mask.height) \div 2) - Px(CanvasHeight) \div 2
    IN  IF mapWidth <= CanvasWidth /\ mapHeight <= CanvasHeight THEN cam
        ELSE [x |-> Max(0, Min(x, Px(mapWidth - CanvasWidth))),
              y |-> Max(0, Min(y, Px(mapHeight - CanvasHeight)))]

\* The velocity of an axis whose key towards -1 wins whenever it is held.
AxisVelFirstWins(vel, neg, pos) ==
    IF neg # 0 THEN Max(vel - acc, -terminalVel)
    ELSE IF pos # 0 THEN Min(vel + acc, terminalVel)
    ELSE 0

\* The velocity of an axis that accelerates without a terminal velocity.
AxisVelUnclamped(vel, neg, pos) ==
    IF neg # 0 /\ pos # 2 THEN vel - acc
    ELSE IF pos # 0 /\ neg # 2 THEN vel + acc
    ELSE 0

\* The velocity an axis gets from its two latches: neg is the latch of the
\* key towards -1 (up, left), pos the one towards +1 (down, right).
AxisVel(vel, neg, pos) ==
    IF neg # 0 /\ pos # 2 THEN Max(vel - acc, -terminalVel)
    ELSE IF pos # 0 /\ neg # 2 THEN Min(vel + acc, terminalVel)
    ELSE 0

\* The movement physics with the horizontal move tested at the row the
\* player had before the vertical step.
PhysicsOldRow(p, keys, layer, mask) ==
    LET yVel == AxisVel(p.yVel, keys.up, keys.down)
        newY == p.y + Px(yVel)
        blockedY == checkWallCollision(layer, mask, p.x, newY)
        y1 == IF ~blockedY THEN newY ELSE p.y
        xVel == AxisVel(p.xVel, keys.left, keys.right)
        newX == p.x + Px(xVel)
        blockedX == checkWallCollision(layer, mask, newX, p.y)
        x1 == IF ~blockedX THEN newX ELSE p.x
        facing == IF keys.left # 0 /\ keys.right # 2 THEN "left"
                  ELSE IF keys.right # 0 /\ keys.left # 2 THEN "right"
                  ELSE p.facing
    IN  [p |-> [p EXCEPT !.x = x1, !.y = y1, !.xVel = xVel, !.yVel = yVel,
                         !.facing = facing],
         blockedY |-> blockedY, blockedX |-> blockedX]

\* The movement physics whose horizontal step is taken without the test of
\* checkWallCollision.
PhysicsUncheckedX(p, keys, layer, mask) ==
    LET yVel == AxisVel(p.yVel, keys.up, keys.down)
        newY == p.y + Px(yVel)
        blockedY == checkWallCollision(layer, mask, p.x, newY)
        y1 == IF ~blockedY THEN newY ELSE p.y
        xVel == AxisVel(p.xVel, keys.left, keys.right)
        facing == IF keys.left # 0 /\ keys.right # 2 THEN "left"
                  ELSE IF keys.right # 0 /\ keys.left # 2 THEN "right"
                  ELSE p.facing
    IN  [p |-> [p EXCEPT !.x = p.x + Px(xVel), !.y = y1, !.xVel = xVel,
                         !.yVel = yVel, !.facing = facing],
         blockedY |-> blockedY, blockedX |-> FALSE]

\* The movement physics of updatePlayerPosition (lines 759-789): the
\* vertical velocity and step, then the horizontal velocity, the facing and
\* the horizontal step at the row the vertical step left.
Physics(p, keys, layer, mask) ==
    LET yVel == AxisVel(p.yVel, keys.up, keys.down)
        newY == p.y + Px(yVel)
        blockedY == checkWallCollision(layer, mask, p.x, newY)
        y1 == IF ~blockedY THEN newY ELSE p.y
        xVel == AxisVel(p.xVel, keys.left, keys.right)
        newX == p.x + Px(xVel)
        blockedX == checkWallCollision(layer, mask, newX, y1)
        x1 == IF ~blockedX THEN newX ELSE p.x
        facing == IF keys.left # 0 /\ keys.right # 2 THEN "left"
                  ELSE IF keys.right # 0 /\ keys.left # 2 THEN "right"
                  ELSE p.facing
    IN  [p |-> [p EXCEPT !.x = x1, !.y = y1, !.xVel = xVel, !.yVel = yVel,
                         !.facing = facing],
         blockedY |-> blockedY, blockedX |-> blockedX]

----------------------------------------------------------------------------
(* History records *)

NoPlayer == [x |-> 0, y |-> 0, xVel |-> 0, yVel |-> 0, facing |-> "left",
             location |-> ""]

\* A pending callback of setTimeout: the coordinates its closure saved, the
\* ticks left before it is due and (history) the map it was scheduled on.
Timer(oldX, oldY, left, location) ==
    [oldX |-> oldX, oldY |-> oldY, left |-> left, location |-> location]

NoTimer == Timer(0, 0, 0, "")

\* What the last frame or timer callback did.  kind is "none", "physics"
\* (blockedY, blockedX: the two collision verdicts), "invalid" (validation
\* failed), "threw", "door", "move", "moveRebound", "unknown" (obj: the
\* activated object, pre: the player before the frame, scheduled: whether
\* the frame called setTimeout, held: whether a direction key was latched
\* during the frame) or "rebound" (t: the timer that fired, pre: the player
\* before the callback).
Event(kind, obj, pre, blockedY, blockedX, scheduled, t) ==
    [kind |-> kind, obj |-> obj, pre |-> pre, blockedY |-> blockedY,
     blockedX |-> blockedX, scheduled |-> scheduled, t |-> t, held |-> FALSE]

NoEvent == Event("none", 0, NoPlayer, FALSE, FALSE, FALSE, NoTimer)

\* The latest moveRebound activation: where the player was (x0, y0), the
\* destination, the delay asked for, the ticks elapsed since while its
\* callback is pending, whether the callback has run, and quiet: no key was
\* held at the activation, no other rebound was pending, and no key event,
\* other interaction or other callback has happened since.
NoRebound == [active |-> FALSE, x0 |-> 0, y0 |-> 0, destX |-> 0, destY |-> 0,
              reboundTime |-> 0, elapsed |-> 0, fired |-> FALSE,
              quiet |-> FALSE]

----------------------------------------------------------------------------
(* updatePlayerPosition *)

\* Bounds of the model: the callbacks pending at once, the keys held at once.
MaxTimers == 2
MaxHeld == 2

\* What one call of updatePlayerPosition leaves: the player, the space latch,
\* the cached interactables, the timers, the camera, whether it threw, and
\* the history record of the frame.
Outcome(p, space, ci, tm, cam, threw, event) ==
    [player |-> p, space |-> space, currentInteractable |-> ci, timers |-> tm,
     camera |-> cam, threw |-> threw, ev |-> event]

\* The map object game.maps[name] the code reads fields of.
MapObject(w, name) ==
    IF MapsLookup(name) = "map" THEN MapOf(w, name) ELSE NotAMap

\* The dispatch whose last branch teleports: every type but door is a move.
DispatchUnknownMoves(w, p, cam, ci, tm, found, interactable) ==
    LET type == interactable.type
        isType(t) == type.k = "str" /\ type.s = t
        dest == [p EXCEPT !.x = interactable.destinationX.n,
                          !.y = interactable.destinationY.n]
        p1 == IF isType("door")
                  THEN [dest EXCEPT !.location = interactable.destinationMap.s,
                                    !.xVel = 0, !.yVel = 0]
              ELSE dest
        tm1 == IF isType("moveRebound")
                  THEN Append(tm, Timer(p.x, p.y,
                                        Max(0, interactable.reboundTime.n),
                                        p.location))
               ELSE tm
        kind == IF isType("door") THEN "door"
                ELSE IF isType("move") THEN "move"
                ELSE IF isType("moveRebound") THEN "moveRebound"
                ELSE "unknown"
        event == Event(kind, found, p, FALSE, FALSE, isType("moveRebound"), NoTimer)
    IN  IF MapsLookup(p1.location) = "inherited"
            THEN Outcome(p1, 0, ci, tm1, cam, TRUE, event)
        ELSE Outcome(p1, 0, ci, tm1,
                     updateCamera(cam, p1, PlayerMask, MapObject(w, p1.location)),
                     FALSE, event)

\* The dispatch with a door that keeps the player on the current map.
DispatchDoorStays(w, p, cam, ci, tm, found, interactable) ==
    LET type == interactable.type
        isType(t) == type.k = "str" /\ type.s = t
        dest == [p EXCEPT !.x = interactable.destinationX.n,
                          !.y = interactable.destinationY.n]
        p1 == IF isType("door") THEN [dest EXCEPT !.xVel = 0, !.yVel = 0]
              ELSE IF isType("move") \/ isType("moveRebound") THEN dest
              ELSE p
        tm1 == IF isType("moveRebound")
                  THEN Append(tm, Timer(p.x, p.y,
                                        Max(0, interactable.reboundTime.n),
                                        p.location))
               ELSE tm
        kind == IF isType("door") THEN "door"
                ELSE IF isType("move") THEN "move"
                ELSE IF isType("moveRebound") THEN "moveRebound"
                ELSE "unknown"
        event == Event(kind, found, p, FALSE, FALSE, isType("moveRebound"), NoTimer)
    IN  Outcome(p1, 0, ci, tm1,
                updateCamera(cam, p1, PlayerMask, MapObject(w, p1.location)),
                FALSE, event)

\* The dispatch on type of a validated interactable (lines 729-756): the
\* teleport, the timer of a moveRebound, then updateCamera, which throws on
\* the mapData of a location that is an inherited key and no map.
Dispatch(w, p, cam, ci, tm, found, interactable) ==
    LET type == interactable.type
        isType(t) == type.k = "str" /\ type.s = t
        dest == [p EXCEPT !.x = interactable.destinationX.n,
                          !.y = interactable.destinationY.n]
        p1 == IF isType("door")
                  THEN [dest EXCEPT !.location = interactable.destinationMap.s,
                                    !.xVel = 0, !.yVel = 0]
              ELSE IF isType("move") \/ isType("moveRebound") THEN dest
              ELSE p
        tm1 == IF isType("moveRebound")
                  THEN Append(tm, Timer(p.x, p.y,
                                        Max(0, interactable.reboundTime.n),
                                        p.location))
               ELSE tm
        kind == IF isType("door") THEN "door"
                ELSE IF isType("move") THEN "move"
                ELSE IF isType("moveRebound") THEN "moveRebound"
                ELSE "unknown"
        event == Event(kind, found, p, FALSE, FALSE, isType("moveRebound"), NoTimer)
    IN  IF MapsLookup(p1.location) = "inherited"
            THEN Outcome(p1, 0, ci, tm1, cam, TRUE, event)
        ELSE Outcome(p1, 0, ci, tm1,
                     updateCamera(cam, p1, PlayerMask, MapObject(w, p1.location)),
                     FALSE, event)

\* updatePlayerPosition without the early return after a dispatch: the
\* movement physics of the same frame runs on from the teleported player.
updateThenPhysics(w, p, keys, cam, ci, tm) ==
    LET lookup == MapsLookup(p.location)
        currentMap == MapObject(w, p.location)
        found == checkInteractables(p, PlayerMask, currentMap)
        ci1 == IF lookup = "map" THEN [ci EXCEPT ![p.location] = found] ELSE ci
        interactable == getProperties(currentMap.objects[found])
        moved == Physics(p, keys, currentMap.collisionLayer, PlayerMask)
        d == Dispatch(w, p, cam, ci1, tm, found, interactable.bag)
        after == Physics(d.player, keys,
                         MapObject(w, d.player.location).collisionLayer, PlayerMask)
    IN  IF lookup = "undefined"
            THEN Outcome(p, keys.space, ci, tm, cam, FALSE, NoEvent)
        ELSE IF keys.space # 0 /\ found # 0
            THEN IF interactable.isNull
                    THEN Outcome(p, 0, ci1, tm, cam, TRUE,
                                 Event("threw", found, p, FALSE, FALSE, FALSE, NoTimer))
                 ELSE IF ~verifyInteractable(interactable.bag)
                    THEN Outcome(p, 0, ci1, tm, cam, FALSE,
                                 Event("invalid", found, p, FALSE, FALSE, FALSE, NoTimer))
                 ELSE IF d.threw THEN d
                 ELSE Outcome(after.p, 0, ci1, d.timers,
                              updateCamera(cam, after.p, PlayerMask,
                                           MapObject(w, after.p.location)),
                              FALSE, d.ev)
        ELSE IF lookup = "inherited"
            THEN Outcome(moved.p, keys.space, ci1, tm, cam, TRUE,
                         Event("threw", 0, p, moved.blockedY, moved.blockedX, FALSE, NoTimer))
        ELSE Outcome(moved.p, keys.space, ci1, tm,
                     updateCamera(cam, moved.p, PlayerMask, currentMap), FALSE,
                     Event("physics", 0, NoPlayer, moved.blockedY, moved.blockedX,
                           FALSE, NoTimer))

\* updatePlayerPosition() in world w from player p, latches keys, camera
\* cam, cached interactables ci and pending timers tm.
updatePlayerPosition(w, p, keys, cam, ci, tm) ==
    LET lookup == MapsLookup(p.location)
        currentMap == MapObject(w, p.location)
        found == checkInteractables(p, PlayerMask, currentMap)
        ci1 == IF lookup = "map" THEN [ci EXCEPT ![p.location] = found] ELSE ci
        interactable == getProperties(currentMap.objects[found])
        moved == Physics(p, keys, currentMap.collisionLayer, PlayerMask)
    IN  IF lookup = "undefined"
            THEN Outcome(p, keys.space, ci, tm, cam, FALSE, NoEvent)
        ELSE IF keys.space # 0 /\ found # 0
            THEN IF interactable.isNull
                    THEN Outcome(p, 0, ci1, tm, cam, TRUE,
                                 Event("threw", found, p, FALSE, FALSE, FALSE, NoTimer))
                 ELSE IF ~verifyInteractable(interactable.bag)
                    THEN Outcome(p, 0, ci1, tm, cam, FALSE,
                                 Event("invalid", found, p, FALSE, FALSE, FALSE, NoTimer))
                 ELSE Dispatch(w, p, cam, ci1, tm, found, interactable.bag)
        ELSE IF lookup = "inherited"
            THEN Outcome(moved.p, keys.space, ci1, tm, cam, TRUE,
                         Event("threw", 0, p, moved.blockedY, moved.blockedX, FALSE, NoTimer))
        ELSE Outcome(moved.p, keys.space, ci1, tm,
                     updateCamera(cam, moved.p, PlayerMask, currentMap), FALSE,
                     Event("physics", 0, NoPlayer, moved.blockedY, moved.blockedX,
                           FALSE, NoTimer))

----------------------------------------------------------------------------
(* The actions: start-up, frames, key events, timers *)

Keys == {"up", "down", "left", "right", "space"}

\* The key of the opposite direction.
Opposite(k) ==
    CASE k = "up" -> "down" [] k = "down" -> "up"
      [] k = "left" -> "right" [] k = "right" -> "left"

NoKeys == [k \in Keys |-> 0]

Held(keys) == Cardinality({k \in Keys : keys[k] # 0})

\* Whether some direction key is latched.
DirectionHeld(keys) == [keys EXCEPT !.space = 0] # NoKeys

\* The history of the latest rebound after a frame with outcome r.
ReboundAfter(r, keys, tm) ==
    IF r.ev.kind = "moveRebound"
        THEN LET it == MapOf(world, r.ev.pre.location).objects[r.ev.obj].properties
             IN  IF tm = <<>> /\ ~DirectionHeld(keys)
                    THEN [active |-> TRUE, x0 |-> r.ev.pre.x, y0 |-> r.ev.pre.y,
                          destX |-> it.destinationX.n, destY |-> it.destinationY.n,
                          reboundTime |-> Max(0, it.reboundTime.n), elapsed |-> 0,
                          fired |-> FALSE, quiet |-> TRUE]
                 ELSE NoRebound
    ELSE IF r.ev.kind \in {"door", "move", "unknown", "invalid", "threw"}
        THEN NoRebound
    ELSE reb

\* A gameLoop whose updatePlayerPosition leaves keysPressed.space as the
\* listeners set it.
gameLoopKeepsSpace ==
    LET r == updatePlayerPosition(world, player, keysPressed, camera,
                                  currentInteractable, timers)
    IN  /\ Len(r.timers) <= world.pending
        /\ player' = r.player
        /\ keysPressed' = keysPressed
        /\ currentInteractable' = r.currentInteractable
        /\ timers' = r.timers
        /\ camera' = r.camera
        /\ ev' = IF r.ev.kind \in {"door", "move", "moveRebound"}
                    THEN [r.ev EXCEPT !.held = DirectionHeld(keysPressed)]
                 ELSE r.ev
        /\ reb' = ReboundAfter(r, keysPressed, timers)
        /\ phase' = IF r.threw THEN "halted" ELSE "running"
        /\ UNCHANGED <<world, probe, audio>>

\* A gameLoop that consumes the space latch in every frame, interaction or
\* not.
gameLoopClearsSpace ==
    LET r == updatePlayerPosition(world, player, keysPressed, camera,
                                  currentInteractable, timers)
    IN  /\ Len(r.timers) <= world.pending
        /\ player' = r.player
        /\ keysPressed' = [keysPressed EXCEPT !.space = 0]
        /\ currentInteractable' = r.currentInteractable
        /\ timers' = r.timers
        /\ camera' = r.camera
        /\ ev' = IF r.ev.kind \in {"door", "move", "moveRebound"}
                    THEN [r.ev EXCEPT !.held = DirectionHeld(keysPressed)]
                 ELSE r.ev
        /\ reb' = ReboundAfter(r, keysPressed, timers)
        /\ phase' = IF r.threw THEN "halted" ELSE "running"
        /\ UNCHANGED <<world, probe, audio>>

\* gameLoop(): updatePlayerPosition, the drawing (which changes no state)
\* and requestAnimationFrame(gameLoop), which an exception skips.
gameLoop ==
    LET r == updatePlayerPosition(world, player, keysPressed, camera,
                                  currentInteractable, timers)
    IN  /\ Len(r.timers) <= world.pending
        /\ player' = r.player
        /\ keysPressed' = [keysPressed EXCEPT !.space = r.space]
        /\ currentInteractable' = r.currentInteractable
        /\ timers' = r.timers
        /\ camera' = r.camera
        /\ ev' = IF r.ev.kind \in {"door", "move", "moveRebound"}
                    THEN [r.ev EXCEPT !.held = DirectionHeld(keysPressed)]
                 ELSE r.ev
        /\ reb' = ReboundAfter(r, keysPressed, timers)
        /\ phase' = IF r.threw THEN "halted" ELSE "running"
        /\ UNCHANGED <<world, probe, audio>>

\* The click handler of a start button that is never disabled: every click
\* starts a load.
ClickNeverDisabled ==
    /\ phase' = "loading"
    /\ player' = [player EXCEPT !.x = Px(SpawnX), !.y = Px(SpawnY),
                                !.facing = "left", !.location = "house1"]
    /\ UNCHANGED <<world, keysPressed, camera, currentInteractable, timers, ev,
                   reb, probe, audio>>

\* The click on the start button (lines 879-886), up to the await.  The
\* handler disables the button before anything else and nothing enables it
\* again, so only the first click is delivered.
ClickStart ==
    /\ phase = "idle"
    /\ phase' = "loading"
    /\ player' = [player EXCEPT !.x = Px(SpawnX), !.y = Px(SpawnY),
                                !.facing = "left", !.location = "house1"]
    /\ UNCHANGED <<world, keysPressed, camera, currentInteractable, timers, ev,
                   reb, probe, audio>>

\* loadAssets rejects: the catch clause reports it, gameLoop is not called.
LoadFails ==
    /\ phase = "loading"
    /\ loadAssets(world) = "rejected"
    /\ phase' = "failed"
    /\ UNCHANGED <<world, player, keysPressed, camera, currentInteractable,
                   timers, ev, reb, probe, audio>>

\* loadAssets resolves and the handler calls gameLoop() for the first time.
StartGame ==
    /\ phase = "loading"
    /\ loadAssets(world) = "resolved"
    /\ gameLoop

\* A frame: the callback requestAnimationFrame was given.
Frame ==
    /\ phase = "running"
    /\ gameLoop

\* A keydown listener that leaves the latch of the opposite key alone.
KeyDownKeepsOpposite(k) ==
    /\ keysPressed[k] # 0 \/ Held(keysPressed) < world.held
    /\ keysPressed' = [keysPressed EXCEPT ![k] = IF k = "space" THEN 1 ELSE 2]
    /\ reb' = NoRebound
    /\ UNCHANGED <<phase, world, player, camera, currentInteractable, timers,
                   ev, probe, audio>>

\* The keydown listener for the key latched as k (lines 850-865).
KeyDown(k) ==
    /\ keysPressed[k] # 0 \/ Held(keysPressed) < world.held
    /\ keysPressed' =
         IF k = "space" THEN [keysPressed EXCEPT !.space = 1]
         ELSE [keysPressed EXCEPT
                  ![Opposite(k)] = IF keysPressed[Opposite(k)] # 0 THEN 1 ELSE 0,
                  ![k] = 2]
    /\ reb' = NoRebound
    /\ UNCHANGED <<phase, world, player, camera, currentInteractable, timers,
                   ev, probe, audio>>

\* A keyup listener that also stops the player.
KeyUpStops(k) ==
    /\ keysPressed' = [keysPressed EXCEPT ![k] = 0]
    /\ player' = [player EXCEPT !.xVel = 0, !.yVel = 0]
    /\ reb' = NoRebound
    /\ UNCHANGED <<phase, world, camera, currentInteractable, timers, ev,
                   probe, audio>>

\* The keyup listener for the key latched as k (lines 867-873).
KeyUp(k) ==
    /\ keysPressed' = [keysPressed EXCEPT ![k] = 0]
    /\ reb' = NoRebound
    /\ UNCHANGED <<phase, world, player, camera, currentInteractable, timers,
                   ev, probe, audio>>

\* One tick of time passes: no pending callback is overdue.
Tick ==
    /\ timers # <<>>
    /\ \A i \in 1 .. Len(timers) : timers[i].left > 0
    /\ timers' = [i \in 1 .. Len(timers) |->
                     [timers[i] EXCEPT !.left = timers[i].left - 1]]
    /\ reb' = IF reb.active /\ ~reb.fired
                 THEN [reb EXCEPT !.elapsed = reb.elapsed + 1] ELSE reb
    /\ UNCHANGED <<phase, world, player, keysPressed, camera,
                   currentInteractable, ev, probe, audio>>

RemoveAt(seq, i) ==
    [j \in 1 .. (Len(seq) - 1) |-> IF j < i THEN seq[j] ELSE seq[j + 1]]

\* The rebound callback that forgets to zero the velocity.
ReboundKeepsVelocity(p, t) == [p EXCEPT !.x = t.oldX, !.y = t.oldY]

\* The rebound callback that does nothing once the player has left the map
\* it was scheduled on.
ReboundSameMapOnly(p, t) ==
    IF p.location = t.location
        THEN [p EXCEPT !.x = t.oldX, !.y = t.oldY, !.xVel = 0, !.yVel = 0]
    ELSE p

\* The callback a moveRebound gave setTimeout (lines 745-750).
ReboundCallback(p, t) ==
    [p EXCEPT !.x = t.oldX, !.y = t.oldY, !.xVel = 0, !.yVel = 0]

\* The due callback number i runs.
ReboundFire(i) ==
    /\ i \in 1 .. Len(timers)
    /\ timers[i].left = 0
    /\ player' = ReboundCallback(player, timers[i])
    /\ timers' = RemoveAt(timers, i)
    /\ ev' = Event("rebound", 0, player, FALSE, FALSE, FALSE, timers[i])
    /\ reb' = IF reb.active /\ ~reb.fired /\ i = Len(timers)
                 THEN [reb EXCEPT !.fired = TRUE] ELSE NoRebound
    /\ UNCHANGED <<phase, world, keysPressed, camera, currentInteractable, probe, audio>>

----------------------------------------------------------------------------
(* The audio engine.  The audio clock (audioContext.currentTime) is in
   seconds in the code and in milliseconds here, so that a timeout / 1000,
   a position / 1000 and a fadeOutTime * 1000 are the numbers as they stand. *)

\* The keys of the sfx and of the music table.
SoundBuffers == {"door", "quack"}
MusicBuffers == {"house1", "outdoors1"}

\* No entry of the soundCooldowns map (get returns undefined).
NoEntry == -1

\* Bounds of the model: the last reading of the audio clock, the sounds
\* played, and the readings at which time is observed: the first few steps
\* of 10 ms after 0 and after each half second.
MaxClock == 520
MaxSounds == 3
Instants == {t \in 0 .. MaxClock : t % 10 = 0 /\ t % 500 <= 20}

\* Bounds of the model: the music sources created, the timers pending.
MaxSources == 3
MaxTasks == 2

\* The defaults of playMusic's options, in ms.
DefaultFadeIn == 500
DefaultFadeOut == 500

\* audioBuffer.duration of the two tracks, in ms.
Duration(b) == IF b = "house1" THEN 300 ELSE 700

\* A buffer source of the music channel: start() is called on every source
\* as it is created, stop() when stopped becomes TRUE.
Source(buffer, loop, offset) ==
    [buffer |-> buffer, loop |-> loop, offset |-> offset, started |-> TRUE,
     stopped |-> FALSE]

\* A pending timer of the engine: the continuation of a playMusic that
\* awaits its fade-out ("playMusic": oldSource is the source it captured),
\* or the callback of stopMusic or pauseMusic.  seek and seekLoop are
\* history: the position and the loop setting of the setPosition that made
\* the call, seek = -1 for a call by the page.  For a timer of stopMusic
\* or pauseMusic oldSource is history too, the music source at the call,
\* and so is seek for pauseMusic: the offset recorded at the call.
Task(kind, left, oldSource, buffer, fadeIn, loop, seek, seekLoop) ==
    [kind |-> kind, left |-> left, oldSource |-> oldSource, buffer |-> buffer,
     fadeIn |-> fadeIn, loop |-> loop, seek |-> seek, seekLoop |-> seekLoop]

\* The last track started, for the history: by which call, and what a
\* setPosition wanted of it.
NoRestart == [seek |-> -1, seekLoop |-> FALSE, source |-> 0]

\* new AudioEngine(): the constructor's fields (musicSource is the number of
\* a source, 0 for null; currentMusicBuffer "" for null), a clock that
\* starts with the context, the music sources and the sounds created, in
\* the order of creation, the pending timers, and the last ramp scheduled
\* on the music gain: its target, its length, and what setValueAtTime set
\* before it ("zero", "value" for the gain's current value, "none" for no
\* call).  last, grants and restart are
\* history: the last call of playSound, the calls that returned a
\* controller under a cooldown, the last track started.
NewAudioEngine ==
    [context |-> FALSE, clock |-> 0,
     musicSource |-> 0, currentMusicBuffer |-> "",
     musicStartTime |-> 0, musicPauseOffset |-> 0,
     sources |-> <<>>, tasks |-> <<>>,
     ramp |-> [set |-> "none", to |-> 1, over |-> 0],
     restart |-> NoRestart,
     soundCooldowns |-> [b \in SoundBuffers |-> NoEntry],
     sounds |-> <<>>,
     last |-> [op |-> "none", buffer |-> "", timeout |-> 0, at |-> 0,
               result |-> "none"],
     grants |-> {}]

\* _initContext(): creates the audio context unless there is one.
InitContext(e) == [e EXCEPT !.context = TRUE]

\* audioBuffer.duration of the two sound effects, in ms.
SoundDuration(b) == IF b = "door" THEN 20 ELSE 500

\* A buffer source of a sound: the offset it was started at and when, stop()
\* called or not, whether it has an onended handler, and its ended event:
\* "none", "pending" (stop() was called and the event is queued) or "done".
\* natural is history: the playback ran to its end.
Node(offset, at, onended) ==
    [offset |-> offset, startedAt |-> at, stopped |-> FALSE,
     onended |-> onended, event |-> "none", natural |-> FALSE]

\* The sound a call of playSound creates (lines 1081-1131): the variables
\* of its controller's closure (source is the number of the node the
\* variable source holds), the sources play() has created, and the pending
\* timers of stop().  play() has run once, and the source it created has
\* the onended handler if the sound does not loop.  gain is the target of
\* the last ramp of the gain node; created and pausedAt are history: the
\* time of the call, and the offset the last pause() recorded if no stop()
\* or play() has been called since (-1 otherwise).
Sound(buffer, loop, at) ==
    [buffer |-> buffer, loop |-> loop, isPlaying |-> TRUE, startTime |-> at,
     pauseOffset |-> 0, source |-> 1, nodes |-> <<Node(0, at, ~loop)>>,
     timers |-> <<>>, gain |-> 1, created |-> at, pausedAt |-> -1]

\* playSound with a cooldown test that takes a time of 0 for a time.
playSoundZeroIsTime(e, audioBuffer, loop, timeout) ==
    LET e1 == InitContext(e)
        lastPlayedTime == e1.soundCooldowns[audioBuffer]
        onCooldown == /\ timeout > 0
                      /\ lastPlayedTime # NoEntry
                      /\ e1.clock - lastPlayedTime < timeout
        call(result) == [op |-> "playSound", buffer |-> audioBuffer,
                         timeout |-> timeout, at |-> e1.clock, result |-> result]
    IN  IF onCooldown THEN [e1 EXCEPT !.last = call("null")]
        ELSE [e1 EXCEPT
                !.soundCooldowns[audioBuffer] =
                    IF timeout > 0 THEN e1.clock ELSE @,
                !.sounds = Append(@, Sound(audioBuffer, loop, e1.clock)),
                !.last = call("controller"),
                !.grants = IF timeout > 0
                              THEN @ \cup {[buffer |-> audioBuffer,
                                            timeout |-> timeout, at |-> e1.clock]}
                           ELSE @]

\* playSound with a cooldown that a rejected call refreshes.
playSoundRefreshes(e, audioBuffer, loop, timeout) ==
    LET e1 == InitContext(e)
        lastPlayedTime == e1.soundCooldowns[audioBuffer]
        onCooldown == /\ timeout > 0
                      /\ lastPlayedTime # NoEntry /\ lastPlayedTime # 0
                      /\ e1.clock - lastPlayedTime < timeout
        call(result) == [op |-> "playSound", buffer |-> audioBuffer,
                         timeout |-> timeout, at |-> e1.clock, result |-> result]
    IN  IF onCooldown
            THEN [e1 EXCEPT !.last = call("null"),
                            !.soundCooldowns[audioBuffer] = e1.clock]
        ELSE [e1 EXCEPT
                !.soundCooldowns[audioBuffer] =
                    IF timeout > 0 THEN e1.clock ELSE @,
                !.sounds = Append(@, Sound(audioBuffer, loop, e1.clock)),
                !.last = call("controller"),
                !.grants = IF timeout > 0
                              THEN @ \cup {[buffer |-> audioBuffer,
                                            timeout |-> timeout, at |-> e1.clock]}
                           ELSE @]

\* playSound(audioBuffer, {loop, timeout}) (lines 1061-1134): the engine it
\* leaves.  The test if (lastPlayedTime) fails for no entry and for a
\* recorded time of 0 alike.
playSound(e, audioBuffer, loop, timeout) ==
    LET e1 == InitContext(e)
        lastPlayedTime == e1.soundCooldowns[audioBuffer]
        onCooldown == /\ timeout > 0
                      /\ lastPlayedTime # NoEntry /\ lastPlayedTime # 0
                      /\ e1.clock - lastPlayedTime < timeout
        call(result) == [op |-> "playSound", buffer |-> audioBuffer,
                         timeout |-> timeout, at |-> e1.clock, result |-> result]
    IN  IF onCooldown THEN [e1 EXCEPT !.last = call("null")]
        ELSE [e1 EXCEPT
                !.soundCooldowns[audioBuffer] =
                    IF timeout > 0 THEN e1.clock ELSE @,
                !.sounds = Append(@, Sound(audioBuffer, loop, e1.clock)),
                !.last = call("controller"),
                !.grants = IF timeout > 0
                              THEN @ \cup {[buffer |-> audioBuffer,
                                            timeout |-> timeout, at |-> e1.clock]}
                           ELSE @]

\* A call of playSound by the page.
PlaySound(audioBuffer, loop, timeout) ==
    /\ Len(audio.sounds) < MaxSounds
    /\ audio' = playSound(audio, audioBuffer, loop, timeout)
    /\ UNCHANGED <<gameVars, probe>>

\* Time passes until the clock reads next: the audio clock of a context
\* that exists advances, whether or not a timer is due.  setTimeout gives a
\* minimum delay: a callback may run at any later reading.  A timer of the
\* engine that is overdue has left < 0, by how long; a timer of stop(),
\* whose callbacks are all alike, stays at 0 once it is due.
AudioTick(next) ==
    /\ audio.context
    /\ next > audio.clock
    /\ audio' = [audio EXCEPT
                    !.clock = next,
                    !.tasks = [i \in 1 .. Len(audio.tasks) |->
                                 [audio.tasks[i] EXCEPT
                                     !.left = @ - (next - audio.clock)]],
                    !.sounds = [i \in 1 .. Len(audio.sounds) |->
                                  [audio.sounds[i] EXCEPT
                                      !.timers = [j \in 1 .. Len(audio.sounds[i].timers) |->
                                                    Max(0, audio.sounds[i].timers[j]
                                                              - (next - audio.clock))]]]]
    /\ UNCHANGED <<gameVars, probe>>

\* Bounds of the model: the sources one sound creates, the timers of stop()
\* pending on it.
MaxNodes == 3
MaxStopTimers == 1

\* stop() is called on source number n of sound s: the first call queues
\* its ended event.
StopNode(s, n) ==
    [s EXCEPT !.nodes[n].stopped = TRUE,
              !.nodes[n].event = IF @ = "none" THEN "pending" ELSE @]

\* The pause offsets up to MaxClock, whole multiples of the 20 ms of the
\* door sound, whose double lies below that multiple of the double 0.02:
\* the remainder of the two doubles is the duration less a rounding error
\* (0.5 % 0.02 = 0.01999999999999999), not 0.
ShortOfMultiple ==
    {60, 120, 180, 220, 240, 300, 360, 380, 420, 440, 480, 500}

\* pauseOffset % audioBuffer.duration of line 1099, a remainder of two
\* doubles in seconds, to the nearest ms.
DoubleRemainder(pauseOffset, duration) ==
    IF duration = 20 /\ pauseOffset \in ShortOfMultiple THEN duration
    ELSE pauseOffset % duration

\* play() of the closure (lines 1093-1102) at time now.
ResumeSound(s, now) ==
    IF s.isPlaying THEN s
    ELSE [s EXCEPT
            !.nodes = Append(@, Node(DoubleRemainder(s.pauseOffset,
                                                     SoundDuration(s.buffer)),
                                     now, FALSE)),
            !.source = Len(s.nodes) + 1,
            !.startTime = now - s.pauseOffset,
            !.isPlaying = TRUE,
            !.pausedAt = -1]

\* controller.pause() (lines 1118-1123) at time now.
PauseSound(s, now) ==
    IF ~s.isPlaying THEN s
    ELSE [StopNode(s, s.source) EXCEPT
            !.isPlaying = FALSE,
            !.pauseOffset = now - s.startTime,
            !.pausedAt = now - s.startTime]

\* controller.stop(fadeOutTime) (lines 1107-1117): the ramp and the timer.
StopSound(s, fadeOut) ==
    IF ~s.isPlaying THEN s
    ELSE [s EXCEPT !.gain = 0, !.timers = Append(@, fadeOut), !.pausedAt = -1]

\* The callback of a timer of stop() (lines 1112-1116): it stops the source
\* the variable holds when it runs.
StopCallback(s) ==
    [StopNode(s, s.source) EXCEPT !.isPlaying = FALSE, !.pauseOffset = 0]

\* source.onended (line 1130) of source number n, if it has the handler.
Onended(s, n) ==
    [s EXCEPT !.isPlaying = IF s.nodes[n].onended THEN FALSE ELSE @,
              !.nodes[n].event = "done"]

\* When source number n of sound s reaches the end of its buffer.
EndOf(s, n) ==
    s.nodes[n].startedAt + (SoundDuration(s.buffer) - s.nodes[n].offset)

\* The page calls play() on the controller of sound number i.
ControllerPlay(i) ==
    /\ i \in 1 .. Len(audio.sounds)
    /\ Len(audio.sounds[i].nodes) < MaxNodes
    /\ audio' = [audio EXCEPT !.sounds[i] = ResumeSound(@, audio.clock)]
    /\ UNCHANGED <<gameVars, probe>>

\* The page calls pause() on the controller of sound number i.
ControllerPause(i) ==
    /\ i \in 1 .. Len(audio.sounds)
    /\ audio' = [audio EXCEPT !.sounds[i] = PauseSound(@, audio.clock)]
    /\ UNCHANGED <<gameVars, probe>>

\* The page calls stop(fadeOut) on the controller of sound number i.
ControllerStop(i, fadeOut) ==
    /\ i \in 1 .. Len(audio.sounds)
    /\ Len(audio.sounds[i].timers) < MaxStopTimers
    /\ audio' = [audio EXCEPT !.sounds[i] = StopSound(@, fadeOut)]
    /\ UNCHANGED <<gameVars, probe>>

\* The first due timer of stop() of sound number i fires.
StopTimerFire(i) ==
    /\ i \in 1 .. Len(audio.sounds)
    /\ audio.sounds[i].timers # <<>>
    /\ \E j \in 1 .. Len(audio.sounds[i].timers) :
          /\ audio.sounds[i].timers[j] = 0
          /\ \A k \in 1 .. j - 1 : audio.sounds[i].timers[k] > 0
          /\ audio' = [audio EXCEPT
                          !.sounds[i] =
                              [StopCallback(@) EXCEPT
                                  !.timers = RemoveAt(audio.sounds[i].timers, j)]]
    /\ UNCHANGED <<gameVars, probe>>

\* Source number n of sound number i, which does not loop, plays to the end
\* of its buffer: its ended event is dispatched.
SourceEnds(i, n) ==
    /\ i \in 1 .. Len(audio.sounds)
    /\ n \in 1 .. Len(audio.sounds[i].nodes)
    /\ ~audio.sounds[i].loop
    /\ ~audio.sounds[i].nodes[n].stopped
    /\ audio.sounds[i].nodes[n].event = "none"
    /\ audio.clock >= EndOf(audio.sounds[i], n)
    /\ audio' = [audio EXCEPT
                    !.sounds[i] = [Onended(@, n) EXCEPT !.nodes[n].natural = TRUE]]
    /\ UNCHANGED <<gameVars, probe>>

\* The queued ended event of a stopped source is dispatched.
EndedDispatch(i, n) ==
    /\ i \in 1 .. Len(audio.sounds)
    /\ n \in 1 .. Len(audio.sounds[i].nodes)
    /\ audio.sounds[i].nodes[n].event = "pending"
    /\ audio' = [audio EXCEPT !.sounds[i] = Onended(@, n)]
    /\ UNCHANGED <<gameVars, probe>>

\* Lines 953-972 of playMusic: the pause offset is reset, the new source is
\* created, made the music source and started at the pause offset, and the
\* gain ramps to 1.  The test if (!this.musicSource) of line 965 reads the
\* source that line 958 has just assigned.
StartTrack(e, audioBuffer, fadeIn, loop, seek, seekLoop) ==
    [e EXCEPT
        !.musicPauseOffset = 0,
        !.currentMusicBuffer = audioBuffer,
        !.sources = Append(@, Source(audioBuffer, loop, 0)),
        !.musicSource = Len(e.sources) + 1,
        !.ramp = [set |-> IF Len(e.sources) + 1 = 0 THEN "zero" ELSE "none",
                  to |-> 1, over |-> fadeIn],
        !.musicStartTime = e.clock - 0,
        !.restart = [seek |-> seek, seekLoop |-> seekLoop,
                     source |-> Len(e.sources) + 1]]

\* playMusic(audioBuffer, {fadeInTime, fadeOutTime, loop}) up to its await
\* (lines 935-951), or to its end when no music source is set.
playMusic(e, audioBuffer, fadeIn, fadeOut, loop, seek, seekLoop) ==
    LET e1 == InitContext(e)
    IN  IF e1.musicSource # 0
            THEN [e1 EXCEPT
                    !.ramp = [set |-> "value", to |-> 0, over |-> fadeOut],
                    !.tasks = Append(@, Task("playMusic", fadeOut + 10,
                                             e1.musicSource, audioBuffer,
                                             fadeIn, loop, seek, seekLoop))]
        ELSE StartTrack(e1, audioBuffer, fadeIn, loop, seek, seekLoop)

\* stopMusic(fadeOutTime) (lines 979-994).
stopMusic(e, fadeOut) ==
    IF e.musicSource = 0 THEN e
    ELSE [e EXCEPT
            !.ramp = [set |-> "value", to |-> 0, over |-> fadeOut],
            !.tasks = Append(@, Task("stopMusic", fadeOut, e.musicSource, "",
                                     0, FALSE, -1, FALSE))]

\* pauseMusic(fadeOutTime) (lines 1000-1015).
pauseMusic(e, fadeOut) ==
    IF e.musicSource = 0 THEN e
    ELSE [e EXCEPT
            !.musicPauseOffset =
                (e.clock - e.musicStartTime) % Duration(e.currentMusicBuffer),
            !.ramp = [set |-> "value", to |-> 0, over |-> fadeOut],
            !.tasks = Append(@, Task("pauseMusic", fadeOut, e.musicSource, "",
                                     0, FALSE,
                                     (e.clock - e.musicStartTime)
                                         % Duration(e.currentMusicBuffer),
                                     FALSE))]

\* getPosition() (lines 1021-1029), in ms.
getPosition(e) ==
    IF e.currentMusicBuffer = "" THEN 0
    ELSE IF e.musicSource # 0
        THEN (e.clock - e.musicStartTime) % Duration(e.currentMusicBuffer)
    ELSE e.musicPauseOffset

\* setPosition(position) (lines 1035-1050).  Its call playMusic(buffer, 0,
\* loop) passes 0 for the options, so that every option takes its default
\* (loop = true) and the third argument is ignored.
setPosition(e, position) ==
    IF e.currentMusicBuffer = "" THEN e
    ELSE LET wasPlaying == e.musicSource # 0
             loop == IF wasPlaying THEN e.sources[e.musicSource].loop ELSE TRUE
             e1 == IF wasPlaying
                      THEN [e EXCEPT !.sources[e.musicSource].stopped = TRUE]
                   ELSE e
             e2 == [e1 EXCEPT !.musicPauseOffset = position]
         IN  IF wasPlaying
                THEN playMusic(e2, e2.currentMusicBuffer, DefaultFadeIn,
                               DefaultFadeOut, TRUE, position, loop)
             ELSE e2

\* The music sources created or about to be: the bound of the model.
SourcesDue(e) ==
    Len(e.sources)
        + Cardinality({i \in 1 .. Len(e.tasks) : e.tasks[i].kind = "playMusic"})

\* A call of playMusic by the page.
PlayMusic(audioBuffer, fadeOut, loop) ==
    /\ SourcesDue(audio) < MaxSources
    /\ Len(audio.tasks) < MaxTasks
    /\ audio' = playMusic(audio, audioBuffer, DefaultFadeIn, fadeOut, loop,
                          -1, FALSE)
    /\ UNCHANGED <<gameVars, probe>>

\* A call of stopMusic by the page.
StopMusic(fadeOut) ==
    /\ Len(audio.tasks) < MaxTasks
    /\ audio' = stopMusic(audio, fadeOut)
    /\ UNCHANGED <<gameVars, probe>>

\* A call of pauseMusic by the page.
PauseMusic(fadeOut) ==
    /\ Len(audio.tasks) < MaxTasks
    /\ audio' = pauseMusic(audio, fadeOut)
    /\ UNCHANGED <<gameVars, probe>>

\* A call of setPosition by the page.
SetPosition(position) ==
    /\ SourcesDue(audio) < MaxSources
    /\ Len(audio.tasks) < MaxTasks
    /\ audio' = setPosition(audio, position)
    /\ UNCHANGED <<gameVars, probe>>

\* The callback of due timer number i of the engine.
TaskCallback(e, t) ==
    CASE t.kind = "playMusic" ->
           StartTrack([e EXCEPT !.sources[t.oldSource].stopped = TRUE],
                      t.buffer, t.fadeIn, t.loop, t.seek, t.seekLoop)
      [] t.kind = "stopMusic" ->
           IF e.musicSource = 0 THEN e
           ELSE [e EXCEPT !.sources[e.musicSource].stopped = TRUE,
                          !.musicSource = 0,
                          !.currentMusicBuffer = "",
                          !.musicPauseOffset = 0]
      [] t.kind = "pauseMusic" ->
           IF e.musicSource = 0 THEN e
           ELSE [e EXCEPT !.sources[e.musicSource].stopped = TRUE,
                          !.musicSource = 0]

\* Due timer number i of the engine fires, at the reading it falls due or
\* at any later one: of the due timers the one that fell due first, and of
\* those due at the same time the one set first.  The continuation of an
\* awaiting playMusic runs before any other timer.
TaskFire(i) ==
    /\ i \in 1 .. Len(audio.tasks)
    /\ audio.tasks[i].left <= 0
    /\ \A j \in 1 .. Len(audio.tasks) :
          \/ audio.tasks[j].left > audio.tasks[i].left
          \/ audio.tasks[j].left = audio.tasks[i].left /\ j >= i
    /\ audio' = [TaskCallback(audio, audio.tasks[i]) EXCEPT
                    !.tasks = RemoveAt(audio.tasks, i)]
    /\ UNCHANGED <<gameVars, probe>>

NoProbe == [mask |-> CollisionMap(0, 0, <<>>), layer |-> NoLayer,
            x |-> 0, y |-> 0, called |-> FALSE, verdict |-> FALSE]

GameInit(worlds) ==
    /\ phase = "idle"
    /\ world \in worlds
    /\ player = [x |-> 0, y |-> 0, xVel |-> 0, yVel |-> 0, facing |-> "left",
                 location |-> ""]
    /\ keysPressed = NoKeys
    /\ camera = [x |-> 0, y |-> 0]
    /\ currentInteractable = [n \in MapNames |-> 0]
    /\ timers = <<>>
    /\ ev = NoEvent
    /\ reb = NoRebound
    /\ audio = NewAudioEngine

\* The worlds of the main specification: the house with a door, a move, a
\* rebound and a sign; one key held at a time.
MainWorld == World(<<"door", "move", "rebound", "variant">>, 1, 1, MaxTimers)

\* With it, a world for each asset of loadAssets that can fail.
MainWorlds == {MainWorld} \cup FaultyWorlds

Init == GameInit(MainWorlds) /\ probe = NoProbe

Next ==
    \/ ClickStart
    \/ LoadFails
    \/ StartGame
    \/ Frame
    \/ \E k \in Keys : KeyDown(k)
    \/ \E k \in Keys : KeyUp(k)
    \/ Tick
    \/ \E i \in 1 .. MaxTimers : ReboundFire(i)

Spec == Init /\ [][Next]_vars

\* The worlds of the walking specification: two keys held at once in a house
\* with a door and a move to a half-pixel position; and a house with a
\* rebound, one key at a time.
WalkWorlds ==
    {World(<<"door", "moveHalf">>, 1, MaxHeld, 0), World(<<"rebound">>, 1, 1, 1)}
        \cup FaultyWorlds

InitWalk == GameInit(WalkWorlds) /\ probe = NoProbe

SpecWalk == InitWalk /\ [][Next]_vars

\* The worlds of the validation specification: a house whose only object
\* carries one of the property bags of VariantBags; and a house with a
\* rebound.
VariantWorlds ==
    {World(<<"variant">>, v, 1, 0) : v \in 1 .. Len(VariantBags)}
        \cup {World(<<"rebound">>, 1, 1, 1)}
        \cup FaultyWorlds

InitVariants == GameInit(VariantWorlds) /\ probe = NoProbe

SpecVariants == InitVariants /\ [][Next]_vars

\* The worlds of the overlap specification: a door and a move on the same
\* rectangle, in either list order; a house whose document has no
\* Interactables layer; a rebound in the first of them.
TouchWorlds ==
    {World(<<"door", "under", "rebound">>, 1, 1, 1),
     World(<<"under", "door">>, 1, 1, 0),
     WithoutInteractables(World(<<"door">>, 1, 1, 0))}
        \cup FaultyWorlds

InitTouch == GameInit(TouchWorlds) /\ probe = NoProbe

SpecTouch == InitTouch /\ [][Next]_vars

----------------------------------------------------------------------------
(* The collision harness: checkWallCollision on drawn inputs *)

\* The bound of the harness: targets lie within ProbeSpan half pixels.
ProbeSpan == 3

\* Every 2 x 2 mask with alpha bytes 0 or 255.
ProbeMasks ==
    {CollisionMap(2, 2, a) : a \in [1 .. 4 -> {0, 255}]}

\* Every collision layer of 2 x 2 or 3 x 2 cells holding 0 or 1, and the
\* map without a collision layer.
ProbeLayers ==
    {Layer(2, 2, 0, c) : c \in [0 .. 3 -> {0, 1}]}
        \cup {Layer(3, 2, 0, c) : c \in [0 .. 5 -> {0, 1}]}
        \cup {NoLayer}

ProbeInit ==
    /\ GameInit({MainWorld})
    /\ probe \in {[mask |-> m, layer |-> l, x |-> 0, y |-> 0,
                   called |-> FALSE, verdict |-> FALSE] :
                     m \in ProbeMasks, l \in ProbeLayers}

\* The one call checkWallCollision(tx, ty) of a harness run, with its mask
\* and layer.
ProbeCall(tx, ty) ==
    /\ ~probe.called
    /\ probe' = [probe EXCEPT
                    !.x = tx, !.y = ty, !.called = TRUE,
                    !.verdict = checkWallCollision(probe.layer, probe.mask, tx, ty)]
    /\ UNCHANGED <<gameVars, audio>>

ProbeNext ==
    \E tx \in (1 - ProbeSpan) .. ProbeSpan, ty \in -1 .. (ProbeSpan - 2) :
        ProbeCall(tx, ty)

SpecCollision == ProbeInit /\ [][ProbeNext]_vars

----------------------------------------------------------------------------
(* C1, C2: the verdict of checkWallCollision *)

\* The integer nearest to the coordinate v, a tie going to the larger one.
Nearest(v) ==
    CHOOSE n \in -(ProbeSpan + 4) .. (ProbeSpan + 4) :
        2 * (n * Scale - v) <= Scale /\ 2 * (n * Scale - v) > -Scale

Pixels(mask) == (0 .. mask.width - 1) \X (0 .. mask.height - 1)

Opaque(mask, px) == mask.data[(px[2] * mask.width + px[1]) * 4 + 3] # 0

\* Where mask pixel px lands on the layer with the sprite at (tx, ty): "out"
\* of the bitmap, or the value of the cell under it.
Under(layer, px, tx, ty) ==
    LET cx == Nearest(tx + Px(px[1]))
        cy == Nearest(ty + Px(px[2]))
    IN  IF cx < 0 \/ cx >= layer.width \/ cy < 0 \/ cy >= layer.height
            THEN "out"
        ELSE IF Data(layer, cy * layer.width + cx) = 0 THEN "empty"
        ELSE "solid"

\* C1: checkWallCollision(targetX, targetY) returns true if and only if
\* some mask pixel with alpha # 0 lands, after rounding to the nearest
\* integer, outside the bounds of the collision bitmap or on a non-zero
\* cell.  (That a move is applied only on a false verdict is C3's formula.)
C1_VerdictIffOpaqueHit ==
    (probe.called /\ probe.layer.present) =>
        (probe.verdict <=>
            \E px \in Pixels(probe.mask) :
                /\ Opaque(probe.mask, px)
                /\ Under(probe.layer, px, probe.x, probe.y) # "empty")

\* C1 happens: a call on a half-pixel target is blocked by a solid cell that
\* an opaque pixel reaches only through the rounding, none being out of bounds.
C1_Witness ==
    /\ probe.called /\ probe.layer.present /\ probe.verdict
    /\ probe.x % Scale # 0
    /\ \A px \in Pixels(probe.mask) :
          Under(probe.layer, px, probe.x, probe.y) # "out"
    /\ ~ScanFloor(probe.layer, probe.mask, probe.x, probe.y, 0)

\* Layers a and b show the same thing under every opaque pixel.
SameUnderOpaque(a, b, mask, tx, ty) ==
    /\ a.present /\ b.present
    /\ \A px \in Pixels(mask) :
          Opaque(mask, px) => Under(a, px, tx, ty) = Under(b, px, tx, ty)

\* C2: the verdict does not depend on what lies under the pixels of alpha 0:
\* any layer that differs only there (other cells, or other bounds that put
\* transparent pixels outside) gets the same verdict.
C2_TransparentPixelsIgnored ==
    probe.called =>
        \A other \in ProbeLayers :
            SameUnderOpaque(probe.layer, other, probe.mask, probe.x, probe.y) =>
                checkWallCollision(other, probe.mask, probe.x, probe.y) = probe.verdict

\* C2 happens: a call returns false although a transparent pixel lies out of
\* bounds and another on a solid cell.
C2_Witness ==
    /\ probe.called /\ probe.layer.present /\ ~probe.verdict
    /\ \E px \in Pixels(probe.mask) :
          ~Opaque(probe.mask, px) /\ Under(probe.layer, px, probe.x, probe.y) = "out"
    /\ \E px \in Pixels(probe.mask) :
          ~Opaque(probe.mask, px) /\ Under(probe.layer, px, probe.x, probe.y) = "solid"
    /\ \E px \in Pixels(probe.mask) : Opaque(probe.mask, px)

----------------------------------------------------------------------------
(* C3: the two axes of a physics frame *)

\* C3: in a physics frame the vertical move is tested at (x, y + yVel) and
\* the horizontal move at (x + xVel, the y the vertical step left); each is
\* applied exactly when its own test is false, whatever the other's verdict.
C3_AxesIndependent ==
    [][((Frame \/ StartGame) /\ ev'.kind = "physics") =>
         LET layer == MapOf(world, player.location).collisionLayer
             newY == player.y + Px(player'.yVel)
             newX == player.x + Px(player'.xVel)
         IN  /\ ev'.blockedY = checkWallCollision(layer, PlayerMask, player.x, newY)
             /\ player'.y = IF ev'.blockedY THEN player.y ELSE newY
             /\ ev'.blockedX = checkWallCollision(layer, PlayerMask, newX, player'.y)
             /\ player'.x = IF ev'.blockedX THEN player.x ELSE newX]_vars

\* C3 happens: a frame of diagonal motion whose vertical step was blocked
\* and whose horizontal step was taken.
C3_Witness ==
    /\ ev.kind = "physics"
    /\ player.yVel # 0 /\ ev.blockedY
    /\ player.xVel # 0 /\ ~ev.blockedX

----------------------------------------------------------------------------
(* C4 - C10: activating an interactable *)

\* A run of gameLoop: the first call or a frame.
LoopRuns == Frame \/ StartGame

\* The object the player's box touches first in the current state.
Touched ==
    checkInteractables(player, PlayerMask, MapObject(world, player.location))

\* The next run of gameLoop activates an interactable.
Activates ==
    /\ MapsLookup(player.location) = "map"
    /\ keysPressed.space # 0
    /\ Touched # 0

ActivatedObj == MapObject(world, player.location).objects[Touched]

\* The properties of the object being activated (all undefined when it has
\* no properties array).
ActivatedBag == ActivatedObj.properties

\* The properties of the object the last activation was of.
LastBag == MapOf(world, ev.pre.location).objects[ev.obj].properties

IsNum(v) == v.k = "num"

\* destinationMap is the name of one of the loaded maps.
NamesLoadedMap(v) == v.k = "str" /\ v.s \in MapNames

\* A door whose destinationMap is missing or names no loaded map.
UnloadedDoor(bag) ==
    bag.type = Str("door") /\ ~NamesLoadedMap(bag.destinationMap)

\* C4: activating a door whose destinationMap is missing, or names a map
\* that is not loaded, never changes player.location.
C4_UnloadedDoorKeepsLocation ==
    [][(LoopRuns /\ Activates /\ UnloadedDoor(ActivatedBag)) =>
         player'.location = player.location]_vars

\* The failures of validation: destinationX or destinationY missing or not a
\* number, a door without a loaded destinationMap, a moveRebound without a
\* numeric reboundTime.
FailsValidation(bag) ==
    \/ ~IsNum(bag.destinationX)
    \/ ~IsNum(bag.destinationY)
    \/ UnloadedDoor(bag)
    \/ bag.type = Str("moveRebound") /\ ~IsNum(bag.reboundTime)

\* C5: when the activated interactable fails validation, the frame leaves
\* the player's x, y, xVel, yVel, facing and location as they were and
\* schedules no timer.
C5_InvalidLeavesPlayer ==
    [][(LoopRuns /\ Activates /\ ActivatedObj.hasProperties
          /\ FailsValidation(ActivatedBag)) =>
         (player' = player /\ timers' = timers)]_vars

ValidDoor(bag) ==
    /\ bag.type = Str("door")
    /\ NamesLoadedMap(bag.destinationMap)
    /\ IsNum(bag.destinationX) /\ IsNum(bag.destinationY)

\* C6: activating a valid door sets player.location to destinationMap,
\* (x, y) to exactly (destinationX, destinationY) and both velocities to 0,
\* and nothing else of the player changes in that frame (no movement
\* physics), whatever keys are held.
C6_DoorTeleportsExactly ==
    [][(LoopRuns /\ Activates /\ ActivatedObj.hasProperties
          /\ ValidDoor(ActivatedBag)) =>
         player' = [player EXCEPT !.location = ActivatedBag.destinationMap.s,
                                  !.x = ActivatedBag.destinationX.n,
                                  !.y = ActivatedBag.destinationY.n,
                                  !.xVel = 0, !.yVel = 0]]_vars

\* C6 happens: a door was taken in a frame in which a direction key was
\* held and the player was moving; it now stands still on the other map.
C6_Witness ==
    /\ ev.kind = "door" /\ ev.held
    /\ ev.pre.xVel # 0 \/ ev.pre.yVel # 0
    /\ player.location = LastBag.destinationMap.s
    /\ player.location # ev.pre.location
    /\ player.x = LastBag.destinationX.n /\ player.y = LastBag.destinationY.n
    /\ player.xVel = 0 /\ player.yVel = 0

ValidMove(bag) ==
    /\ bag.type = Str("move")
    /\ IsNum(bag.destinationX) /\ IsNum(bag.destinationY)

\* C7: activating a valid move sets (x, y) to exactly (destinationX,
\* destinationY) and changes nothing else of the player: the location stays
\* and no movement physics runs in that frame.
C7_MoveTeleportsExactly ==
    [][(LoopRuns /\ Activates /\ ActivatedObj.hasProperties
          /\ ValidMove(ActivatedBag)) =>
         player' = [player EXCEPT !.x = ActivatedBag.destinationX.n,
                                  !.y = ActivatedBag.destinationY.n]]_vars

\* C7 happens: a move to a half-pixel position was taken while a direction
\* key was held and the player was moving; the player is at the destination
\* and still has its velocity.
C7_Witness ==
    /\ ev.kind = "move" /\ ev.held
    /\ player.x = LastBag.destinationX.n /\ player.y = LastBag.destinationY.n
    /\ player.x % Scale # 0
    /\ <<player.x, player.y>> # <<ev.pre.x, ev.pre.y>>
    /\ player.location = ev.pre.location
    /\ player.xVel # 0 \/ player.yVel # 0

\* C8: after a moveRebound activation at (x0, y0) with no other input,
\* interaction or callback (reb.quiet), the player is at the destination
\* until the callback runs, which it does not before reboundTime ticks have
\* passed; once it has run, at the tick it was due, the player is at exactly
\* (x0, y0) with velocity (0, 0).
C8_QuietReboundRestores ==
    (reb.active /\ reb.quiet) =>
        IF reb.fired
            THEN /\ reb.elapsed = reb.reboundTime
                 /\ player.x = reb.x0 /\ player.y = reb.y0
                 /\ player.xVel = 0 /\ player.yVel = 0
        ELSE /\ reb.elapsed <= reb.reboundTime
             /\ player.x = reb.destX /\ player.y = reb.destY

\* C8 happens: a quiet rebound has run its callback after a positive delay;
\* the player was away from (x0, y0) and moving when it ran.
C8_Witness ==
    /\ reb.active /\ reb.quiet /\ reb.fired
    /\ reb.reboundTime > 0
    /\ <<reb.destX, reb.destY>> # <<reb.x0, reb.y0>>
    /\ ev.kind = "rebound" /\ ev.pre.xVel # 0
    /\ player.x = reb.x0 /\ player.y = reb.y0

\* Timer number i of tm is timer number j of the next state, its saved
\* coordinates untouched.
SameClosure(i, j) ==
    /\ timers'[j].oldX = timers[i].oldX
    /\ timers'[j].oldY = timers[i].oldY
    /\ timers'[j].location = timers[i].location

\* C9: a scheduled rebound callback is never cancelled and its saved
\* coordinates never change: a pending callback leaves the timers only by
\* running, and when it runs, whatever the player did meanwhile, it sets
\* (x, y) to the coordinates saved at the activation, zeroes the velocity
\* and leaves player.location as it is.
C9_ReboundNeverCancelled ==
    [][\/ /\ Len(timers') >= Len(timers)
          /\ \A i \in 1 .. Len(timers) : SameClosure(i, i)
       \/ \E i \in 1 .. Len(timers) :
             /\ timers[i].left = 0
             /\ timers' = RemoveAt(timers, i)
             /\ player'.x = timers[i].oldX /\ player'.y = timers[i].oldY
             /\ player'.xVel = 0 /\ player'.yVel = 0
             /\ player'.location = player.location
             /\ player'.facing = player.facing]_vars

\* C9 happens: a callback scheduled in one map has run after the player
\* went through a door, and put the player at the coordinates saved on the
\* old map while it is on the new one.
C9_Witness ==
    /\ ev.kind = "rebound"
    /\ ev.t.location # player.location
    /\ ev.pre.location = player.location
    /\ <<ev.pre.x, ev.pre.y>> # <<ev.t.oldX, ev.t.oldY>>
    /\ player.x = ev.t.oldX /\ player.y = ev.t.oldY

UnknownType(bag) ==
    bag.type \notin {Str("door"), Str("move"), Str("moveRebound")}

\* C10: activating an interactable whose type is none of door, move,
\* moveRebound (or which has no type at all) changes neither the player's
\* position nor its velocity nor its location, whatever other properties the
\* interactable carries.
C10_UnknownTypeStays ==
    [][(LoopRuns /\ Activates /\ UnknownType(ActivatedBag)) =>
         /\ player'.x = player.x /\ player'.y = player.y
         /\ player'.xVel = player.xVel /\ player'.yVel = player.yVel
         /\ player'.location = player.location]_vars

\* C10 happens: an interactable of an unknown type that passes validation,
\* with a numeric destination away from the player, was activated while the
\* player was moving, and the player is where it was.
C10_Witness ==
    /\ ev.kind = "unknown"
    /\ UnknownType(LastBag)
    /\ IsNum(LastBag.destinationX) /\ IsNum(LastBag.destinationY)
    /\ <<LastBag.destinationX.n, LastBag.destinationY.n>> # <<player.x, player.y>>
    /\ player = ev.pre
    /\ player.xVel # 0 \/ player.yVel # 0

----------------------------------------------------------------------------
(* C11: a malformed interactable and the render loop *)

\* The object being activated has no properties array, or its properties
\* fail validation.
Malformed ==
    ~ActivatedObj.hasProperties \/ FailsValidation(ActivatedBag)

\* C11: a malformed interactable never stops the game: the frame that
\* activates it, even one with no properties array at all, ends normally and
\* gameLoop re-arms itself, so the loop is still running after the frame.
C11_MalformedKeepsRunning ==
    [][(LoopRuns /\ Activates /\ Malformed) => phase' = "running"]_vars

----------------------------------------------------------------------------
(* C12: the camera while the game runs *)

\* The camera coordinate c is right for an axis on which the map measures
\* mapSize pixels and the viewport viewSize: within [0, mapSize - viewSize]
\* when the map is larger, 0 when it is not.
AxisInBounds(c, mapSize, viewSize) ==
    IF mapSize > viewSize THEN c >= 0 /\ c <= Px(mapSize - viewSize)
    ELSE c = 0

CameraInBounds(cam, map) ==
    /\ AxisInBounds(cam.x, map.width * map.tilewidth, CanvasWidth)
    /\ AxisInBounds(cam.y, map.height * map.tileheight, CanvasHeight)

\* C12: in every running state, on each axis where the active map is larger
\* than the viewport the camera coordinate lies in [0, mapSize -
\* viewportSize], and on each axis where it is not the coordinate is 0.
C12_CameraInBounds ==
    (phase = "running" /\ MapsLookup(player.location) = "map") =>
        CameraInBounds(camera, MapOf(world, player.location))

\* The part of C12 about the maps larger than the viewport on both axes.
C12_LargeMapCameraInBounds ==
    (phase = "running" /\ player.location = "house1") =>
        CameraInBounds(camera, MapOf(world, player.location))

----------------------------------------------------------------------------
(* The camera harness: updateCamera on drawn inputs *)

\* The bounds of the harness: the maps measure up to MaxMapTiles tiles a
\* side, the player stands within CameraSpan half pixels of the origin.
MaxMapTiles == 4
CameraSpan == 12

\* Maps of 1 .. MaxMapTiles tiles of 2 pixels across and 2, 3 or 5 tiles of
\* 1 pixel down: narrower than, as wide as and wider than the viewport, and
\* the same for the height.
CameraMaps ==
    {[width |-> w, height |-> h, tilewidth |-> 2, tileheight |-> 1,
      collisionLayer |-> NoLayer, hasInteractables |-> FALSE, objects |-> <<>>] :
        w \in 1 .. MaxMapTiles, h \in {2, 3, 5}}

\* The camera before the call: at the origin, or where another map left it.
CameraStarts == {[x |-> 0, y |-> 0], [x |-> 3, y |-> 1]}

CameraInit ==
    /\ GameInit({MainWorld})
    /\ probe \in {[map |-> m, cam |-> c, x |-> 0, y |-> 0, called |-> FALSE,
                    result |-> c] : m \in CameraMaps, c \in CameraStarts}

\* The one call of updateCamera of a harness run, with the player at
\* (px, py) on probe.map.
CameraCall(px, py) ==
    /\ ~probe.called
    /\ probe' = [probe EXCEPT
                    !.x = px, !.y = py, !.called = TRUE,
                    !.result = updateCamera(probe.cam, [x |-> px, y |-> py],
                                            PlayerMask, probe.map)]
    /\ UNCHANGED <<gameVars, audio>>

CameraNext ==
    \E px \in 0 .. CameraSpan, py \in 0 .. (CameraSpan \div 2) : CameraCall(px, py)

SpecCamera == CameraInit /\ [][CameraNext]_vars

----------------------------------------------------------------------------
(* C13, C14: what updateCamera computes *)

\* The pixel size of the harness map, and what is left of it beside the
\* viewport, in half pixels.
ProbeMapWidth == probe.map.width * probe.map.tilewidth
ProbeMapHeight == probe.map.height * probe.map.tileheight
ProbeMaxX == Px(ProbeMapWidth - CanvasWidth)
ProbeMaxY == Px(ProbeMapHeight - CanvasHeight)

\* The player's midpoint, and the camera that centres the viewport on it.
ProbeMidX == probe.x + Px(PlayerMask.width) \div 2
ProbeMidY == probe.y + Px(PlayerMask.height) \div 2
ProbeCentreX == ProbeMidX - Px(CanvasWidth) \div 2
ProbeCentreY == ProbeMidY - Px(CanvasHeight) \div 2

\* Half the viewport, in half pixels.
HalfViewWidth == Px(CanvasWidth) \div 2
HalfViewHeight == Px(CanvasHeight) \div 2

\* v, or the bound of [lo, hi] nearest to it when it lies outside.
Clamp(v, lo, hi) == IF v < lo THEN lo ELSE IF v > hi THEN hi ELSE v

FitsWidth == ProbeMapWidth <= CanvasWidth
FitsHeight == ProbeMapHeight <= CanvasHeight

\* C13 as stated: when the map is smaller than or equal to the viewport in
\* at least one axis, updateCamera leaves camera.x and camera.y unchanged.
C13_FitsEitherAxisKeepsCamera ==
    (probe.called /\ (FitsWidth \/ FitsHeight)) => probe.result = probe.cam

\* C13 amended: updateCamera leaves the camera unchanged when the map fits
\* the viewport on both axes; when it fits on one axis only, the camera is
\* written: 0 on the axis that fits, the centred value clamped to
\* [0, mapSize - viewportSize] on the other.
C13_FitsBothAxesKeepsCamera ==
    probe.called =>
        /\ (FitsWidth /\ FitsHeight) => probe.result = probe.cam
        /\ (FitsWidth /\ ~FitsHeight) =>
              probe.result = [x |-> 0, y |-> Clamp(ProbeCentreY, 0, ProbeMaxY)]
        /\ (~FitsWidth /\ FitsHeight) =>
              probe.result = [x |-> Clamp(ProbeCentreX, 0, ProbeMaxX), y |-> 0]

\* C13 happens: on a map that fits the viewport in height only, a camera
\* left elsewhere is moved on both axes.
C13_Witness ==
    /\ probe.called /\ ~FitsWidth /\ FitsHeight
    /\ probe.cam.y # 0 /\ probe.result.y = 0
    /\ probe.result.x # probe.cam.x /\ probe.result.x > 0

\* C14: on a map larger than the viewport on both axes each camera
\* coordinate is the centred value (midpoint minus half the viewport)
\* clamped to the nearest bound of [0, mapSize - viewportSize]; it is the
\* centred value itself on an axis where the midpoint is at least half a
\* viewport away from both edges of the map.
C14_CentredAndClamped ==
    (probe.called /\ ~FitsWidth /\ ~FitsHeight) =>
        /\ probe.result.x = Clamp(ProbeCentreX, 0, ProbeMaxX)
        /\ probe.result.y = Clamp(ProbeCentreY, 0, ProbeMaxY)
        /\ (ProbeMidX >= HalfViewWidth /\ Px(ProbeMapWidth) - ProbeMidX >= HalfViewWidth)
              => probe.result.x = ProbeCentreX
        /\ (ProbeMidY >= HalfViewHeight /\ Px(ProbeMapHeight) - ProbeMidY >= HalfViewHeight)
              => probe.result.y = ProbeCentreY

\* C14 happens: the camera is centred on a half-pixel midpoint on one axis
\* and clamped to the far bound on the other.
C14_Witness ==
    /\ probe.called /\ ~FitsWidth /\ ~FitsHeight
    /\ probe.result.y = ProbeCentreY /\ probe.result.y % Scale # 0
    /\ probe.result.y > 0 /\ probe.result.y < ProbeMaxY
    /\ ProbeCentreX > ProbeMaxX /\ probe.result.x = ProbeMaxX

----------------------------------------------------------------------------
(* C15: the interactable under the player *)

\* The rectangle of object obj and the player's bounding box at p overlap
\* strictly: they share more than an edge.
StrictOverlap(p, obj) ==
    /\ obj.x < p.x + Px(PlayerMask.width) /\ p.x < obj.x + obj.width
    /\ obj.y < p.y + Px(PlayerMask.height) /\ p.y < obj.y + obj.height

\* The first object of the active map, in list order, that the player
\* overlaps: 0 when there is none or the map has no Interactables layer.
FirstTouched ==
    LET map == MapOf(world, player.location)
        hits == {i \in 1 .. Len(map.objects) : StrictOverlap(player, map.objects[i])}
    IN  IF ~map.hasInteractables \/ hits = {} THEN 0
        ELSE CHOOSE i \in hits : \A j \in hits : i <= j

ActivationKinds == {"door", "move", "moveRebound", "unknown", "invalid", "threw"}

\* C15: a run of gameLoop sets the active map's currentInteractable to the
\* first object in list order that strictly overlaps the player's box, null
\* when none does or the map has no Interactables layer, and an activation
\* in that frame is of that object; no other step, and no other map's
\* entry, is written.
C15_FirstOverlapCached ==
    [][IF LoopRuns /\ MapsLookup(player.location) = "map"
         THEN /\ currentInteractable' =
                    [currentInteractable EXCEPT ![player.location] = FirstTouched]
              /\ ev'.kind \in ActivationKinds =>
                    (ev'.obj = FirstTouched /\ FirstTouched # 0)
       ELSE currentInteractable' = currentInteractable]_vars

\* C15 happens: of two objects under the player the first in the list, a
\* move listed before a door, was the one activated.
C15_Witness ==
    /\ ev.kind = "move" /\ ev.obj = 1
    /\ currentInteractable[ev.pre.location] = 1
    /\ LET objects == MapOf(world, ev.pre.location).objects
       IN  /\ Len(objects) >= 2
           /\ StrictOverlap(ev.pre, objects[2])
           /\ objects[2].properties.type = Str("door")

----------------------------------------------------------------------------
(* C16, C17: starting the game *)

\* C16: the game enters the running state only from a load that resolved;
\* a load starts only from idle (a click on the enabled button), and idle is
\* never entered again: so the game enters the running state at most once,
\* no second load or render loop starts, and there is no way back to idle.
C16_StartsOnce ==
    [][/\ (phase' = "running" /\ phase # "running") =>
             (phase = "loading" /\ loadAssets(world) = "resolved")
       /\ (phase' = "loading") => (phase = "idle" \/ phase = "loading")
       /\ (phase # "idle") => (phase' # "idle")]_vars

\* C16 happens: the loop runs, frames have moved the player away from the
\* place the click put it, and one has taken it through a door.
C16_Witness ==
    /\ phase = "running"
    /\ ev.kind = "physics"
    /\ player.location = "outdoors1"
    /\ player.xVel # 0

\* The game has reached the running state: gameLoop has been called.
Started == phase \in {"running", "halted"}

\* C17: if a single image, map or tileset fetch or decode of loadAssets
\* fails, the game never reaches the running state.
C17_AnyFaultAbortsStartup ==
    (world.fault # "none") => ~Started

\* The part of C17 about the faults that make loadAssets reject: the game
\* never starts, and the failed state (error text, button disabled) is
\* never left.
C17_RejectionAbortsStartup ==
    [][/\ (world.fault \in RejectingFaults) => (~Started /\ ~Started')
       /\ (phase = "failed") => (phase' = "failed")]_vars

----------------------------------------------------------------------------
(* The sound specification: playSound and the passing of time *)

\* The cooldowns the page asks for, in ms.
SoundTimeouts == {0, 10, 20}

SoundInit == GameInit({MainWorld}) /\ probe = NoProbe

SoundNext ==
    \/ \E b \in SoundBuffers, timeout \in SoundTimeouts :
          PlaySound(b, FALSE, timeout)
    \/ \E next \in Instants : AudioTick(next)

SpecSound == SoundInit /\ [][SoundNext]_vars

\* A controller was returned for buffer b under the cooldown timeout at a
\* time t with t <= now < t + timeout.
GrantedWithin(b, timeout, now) ==
    \E g \in audio.grants :
        /\ g.buffer = b /\ g.timeout = timeout
        /\ g.at <= now /\ now < g.at + timeout

\* C18: if playSound(buffer, {timeout}) with timeout > 0 returned a
\* controller at time t, every playSound call with the same buffer and
\* timeout at a time in [t, t + timeout) returns null, whatever the audio
\* clock read at t, 0 included.
C18_CooldownRejects ==
    [][\A b \in SoundBuffers, timeout \in SoundTimeouts :
         (PlaySound(b, FALSE, timeout) /\ timeout > 0
            /\ GrantedWithin(b, timeout, audio.clock))
           => audio'.last.result = "null"]_vars

\* The part of C18 about the controllers returned at a clock reading other
\* than 0.
C18_CooldownRejectsAfterZero ==
    [][\A b \in SoundBuffers, timeout \in SoundTimeouts :
         (PlaySound(b, FALSE, timeout) /\ timeout > 0
            /\ GrantedWithin(b, timeout, audio.clock)
            /\ audio.soundCooldowns[b] # 0)
           => audio'.last.result = "null"]_vars

----------------------------------------------------------------------------
(* The music specification: the music channel, its timers and time *)

\* The fade-out times and the positions the page asks for, in ms.
FadeOuts == {0, 500}
Positions == {100}

\* The tracks the page plays: a buffer and its loop option.
Tracks == {<<"house1", TRUE>>, <<"outdoors1", FALSE>>}

MusicNext ==
    \/ \E track \in Tracks, fadeOut \in FadeOuts :
          PlayMusic(track[1], fadeOut, track[2])
    \/ \E fadeOut \in FadeOuts : StopMusic(fadeOut)
    \/ \E fadeOut \in FadeOuts : PauseMusic(fadeOut)
    \/ \E position \in Positions : SetPosition(position)
    \/ \E i \in 1 .. MaxTasks : TaskFire(i)
    \/ \E next \in Instants : AudioTick(next)

SpecMusic == SoundInit /\ [][MusicNext]_vars

\* Source number i of the music channel has been started and not stopped.
Sounding(e, i) == e.sources[i].started /\ ~e.sources[i].stopped

\* C19: after any interleaving of playMusic, stopMusic, pauseMusic and
\* setPosition calls and their fade timers, a second playMusic issued while
\* the first awaits its fade-out included, at most one music source has been
\* started and not stopped, and it is the one musicSource references.
C19_SingleMusicChannel ==
    \A i \in 1 .. Len(audio.sources) :
        Sounding(audio, i) => i = audio.musicSource

\* The case of C19 with no timer pending: the calls and their fade timers
\* are over.
C19_SingleMusicChannelAtRest ==
    audio.tasks = <<>> => C19_SingleMusicChannel

\* Timer number i is the continuation of the playMusic a setPosition called.
IsRestart(i) ==
    /\ i \in 1 .. Len(audio.tasks)
    /\ audio.tasks[i].kind = "playMusic"
    /\ audio.tasks[i].seek # -1

\* C20: setPosition(p) seeks the music.  Called while a track is playing,
\* playback continues from offset p ms of the same buffer with the same loop
\* setting, and getPosition right after the restart reports p; called while
\* paused, it records p as the pause offset.
C20_SetPositionSeeks ==
    [][/\ \A i \in 1 .. MaxTasks :
            (IsRestart(i) /\ TaskFire(i)) =>
                /\ audio'.musicSource = Len(audio'.sources)
                /\ audio'.sources[audio'.musicSource].buffer
                       = audio.sources[audio.tasks[i].oldSource].buffer
                /\ audio'.sources[audio'.musicSource].loop
                       = audio.tasks[i].seekLoop
                /\ audio'.sources[audio'.musicSource].offset
                       = audio.tasks[i].seek
                /\ getPosition(audio') = audio.tasks[i].seek
       /\ \A position \in Positions :
            (SetPosition(position) /\ audio.currentMusicBuffer # ""
               /\ audio.musicSource = 0) =>
                audio'.musicPauseOffset = position]_vars

\* The part of C20 about a call while the music is paused.
C20_PausedRecordsOffset ==
    [][\A position \in Positions :
         (SetPosition(position) /\ audio.currentMusicBuffer # ""
            /\ audio.musicSource = 0) =>
             /\ audio'.musicPauseOffset = position
             /\ getPosition(audio') = position
             /\ audio'.sources = audio.sources]_vars

\* setPosition is called on paused music at another offset than it asks for.
C20_PausedReached ==
    /\ audio.currentMusicBuffer # "" /\ audio.musicSource = 0
    /\ audio.tasks = <<>>
    /\ \E position \in Positions : audio.musicPauseOffset = position
    /\ audio.clock > 0

----------------------------------------------------------------------------
(* C21: the direction latches *)

Directions == {"up", "down", "left", "right"}

Vertical(k) == k \in {"up", "down"}

\* The velocity of the axis of direction k a frame computes from velocity v
\* under the latches keys.
AxisVelOf(keys, k, v) ==
    IF Vertical(k) THEN AxisVel(v, keys.up, keys.down)
    ELSE AxisVel(v, keys.left, keys.right)

\* One frame's acceleration of velocity v towards direction k.
Toward(k, v) ==
    IF k \in {"up", "left"} THEN Max(v - acc, -terminalVel)
    ELSE Min(v + acc, terminalVel)

\* Under the latches keys, direction k drives the velocity of its axis.
Drives(keys, k) ==
    \A v \in -terminalVel .. terminalVel : AxisVelOf(keys, k, v) = Toward(k, v)

\* Under the latches keys, the axis of direction k is brought to rest.
Rests(keys, k) ==
    \A v \in -terminalVel .. terminalVel : AxisVelOf(keys, k, v) = 0

\* The velocity of player p on the axis of direction k.
VelOf(p, k) == IF Vertical(k) THEN p.yVel ELSE p.xVel

\* A key event of the axis of direction k.
AxisEvent(k) ==
    KeyDown(k) \/ KeyUp(k) \/ KeyDown(Opposite(k)) \/ KeyUp(Opposite(k))

\* The next run of gameLoop reaches the movement physics: the map exists
\* and no interaction is dispatched or rejected.
RunsPhysics ==
    /\ MapsLookup(player.location) # "undefined"
    /\ ~(keysPressed.space # 0 /\ Touched # 0)
    /\ LoopRuns

\* What the key events of direction k do to the latches: after keydown k
\* drives its axis, the opposite key held or not; after keyup the opposite
\* key drives it if it is held, and the axis rests if it is not; and no
\* other step changes which key drives.
LatchOf(k) ==
    /\ KeyDown(k) => Drives(keysPressed', k)
    /\ (KeyUp(k) /\ keysPressed[Opposite(k)] # 0)
          => Drives(keysPressed', Opposite(k))
    /\ (KeyUp(k) /\ keysPressed[Opposite(k)] = 0) => Rests(keysPressed', k)
    /\ ~AxisEvent(k) =>
          /\ Drives(keysPressed', k) <=> Drives(keysPressed, k)
          /\ Rests(keysPressed', k) <=> Rests(keysPressed, k)

\* A frame accelerates the player towards the direction that drives.
Driven(k) ==
    Drives(keysPressed, k) => VelOf(player', k) = Toward(k, VelOf(player, k))

\* A frame sets the velocity of an axis at rest to 0.
Rested(k) == Rests(keysPressed, k) => VelOf(player', k) = 0

\* C21 as stated: for each axis pair, after any sequence of keydown and
\* keyup events, the most recently pressed of two opposing keys held drives
\* the velocity, the key still held drives it when that one is released,
\* and with neither held the axis velocity is set to 0 in the next frame,
\* whatever that frame does.
C21_LatestKeyDrivesEveryFrame ==
    [][/\ \A k \in Directions : LatchOf(k)
       /\ RunsPhysics => \A k \in Directions : Driven(k)
       /\ LoopRuns => \A k \in Directions : Rested(k)]_vars

\* C21, amended: the same, with neither key held the axis velocity being
\* set to 0 in the next frame that reaches the movement physics.
C21_LatestKeyDrives ==
    [][/\ \A k \in Directions : LatchOf(k)
       /\ RunsPhysics => \A k \in Directions : Driven(k) /\ Rested(k)]_vars

\* Right was pressed while left was held, and a frame has moved the player
\* to the right.
C21_Witness ==
    /\ keysPressed.left = 1 /\ keysPressed.right = 2
    /\ ev.kind = "physics"
    /\ player.xVel = terminalVel /\ player.facing = "right"

----------------------------------------------------------------------------
(* The drawing specification: one call of drawSceneAndEntities *)

\* Bounds of the harness: the objects of the Foreground layer, those of the
\* Top layer, and how far down the player stands, in half pixels.
MaxForeground == 3
MaxTop == 1
DrawSpan == 6

\* The y of the tile objects, in pixels, and their gids: game.tileImages
\* holds an image for gid 1 and none for gid 0.
DrawYs == {1, 2, 3}
Gids == {0, 1}

\* The tile objects a layer may list: an object is told by its place in the
\* list of the map file (id).
TileObjects(n) ==
    UNION {[1 .. len -> [y : {Px(y) : y \in DrawYs}, gid : Gids]] : len \in 0 .. n}

Tagged(objects) ==
    [i \in 1 .. Len(objects) |->
        [id |-> i, y |-> objects[i].y, gid |-> objects[i].gid]]

\* objects with obj inserted behind the last object whose y is not greater.
InsertByY(objects, obj) ==
    LET before == {i \in 1 .. Len(objects) : objects[i].y <= obj.y}
        n == Cardinality(before)
    IN  [i \in 1 .. Len(objects) + 1 |->
            IF i <= n THEN objects[i]
            ELSE IF i = n + 1 THEN obj
            ELSE objects[i - 1]]

\* A foreground list left in the order of the map file.
FileOrder(objects, i) == objects

\* foregroundLayer.objects.sort((a, b) => a.y - b.y) (line 572): the first
\* i objects in ascending order of y, objects of equal y in list order.
RECURSIVE SortByY(_, _)
SortByY(objects, i) ==
    IF i = 0 THEN <<>>
    ELSE InsertByY(SortByY(objects, i - 1), objects[i])

\* A call of ctx.drawImage: of the background, the player, or object id of
\* a layer.
Draw(what, id) == [what |-> what, id |-> id]

\* The draw of tile object obj (lines 815-821, 830-836): none without a
\* tile image.
DrawTile(what, obj) ==
    IF obj.gid \in {1} THEN <<Draw(what, obj.id)>> ELSE <<>>

\* The loop over sortedForegroundObjects (lines 808-823) from object i on:
\* the calls of drawImage and whether the player has been drawn.
RECURSIVE DrawForeground(_, _, _, _)
DrawForeground(objects, i, playerBaseY, playerDrawn) ==
    IF i > Len(objects) THEN [draws |-> <<>>, playerDrawn |-> playerDrawn]
    ELSE LET now == ~playerDrawn /\ playerBaseY < objects[i].y
             rest == DrawForeground(objects, i + 1, playerBaseY,
                                    playerDrawn \/ now)
         IN  [draws |-> (IF now THEN <<Draw("player", 0)>> ELSE <<>>)
                           \o DrawTile("foreground", objects[i]) \o rest.draws,
              playerDrawn |-> rest.playerDrawn]

\* The loop over topLayerObjects (lines 829-837).
RECURSIVE DrawTop(_, _)
DrawTop(objects, i) ==
    IF i > Len(objects) THEN <<>>
    ELSE DrawTile("top", objects[i]) \o DrawTop(objects, i + 1)

\* drawSceneAndEntities() (lines 797-838) for a player at height y on a map
\* with a background image: the calls of drawImage, in order.
drawSceneAndEntities(y, mask, sortedForegroundObjects, topLayerObjects) ==
    LET playerBaseY == y + Px(mask.height) - Px(1)
        loop == DrawForeground(sortedForegroundObjects, 1, playerBaseY, FALSE)
    IN  <<Draw("background", 0)>>
            \o loop.draws
            \o (IF ~loop.playerDrawn THEN <<Draw("player", 0)>> ELSE <<>>)
            \o DrawTop(topLayerObjects, 1)

\* The map of a harness run, as loadAssets leaves it: the Foreground layer
\* sorted, the Top layer as in the file.
DrawInit ==
    /\ GameInit({MainWorld})
    /\ probe \in {[foreground |-> SortByY(Tagged(f), Len(f)),
                   top |-> Tagged(t), y |-> 0, called |-> FALSE,
                   draws |-> <<>>] :
                    f \in TileObjects(MaxForeground), t \in TileObjects(MaxTop)}

\* The one frame of a harness run: drawSceneAndEntities with the player at
\* height y.
DrawCall(y) ==
    /\ ~probe.called
    /\ probe' = [probe EXCEPT
                    !.y = y, !.called = TRUE,
                    !.draws = drawSceneAndEntities(y, PlayerMask,
                                                   probe.foreground, probe.top)]
    /\ UNCHANGED <<gameVars, audio>>

DrawNext == \E y \in 0 .. DrawSpan : DrawCall(y)

SpecDraw == DrawInit /\ [][DrawNext]_vars

----------------------------------------------------------------------------
(* C22: the order of drawing *)

\* The places of the draws of kind what in the frame drawn.
DrawsOf(what) ==
    {i \in 1 .. Len(probe.draws) : probe.draws[i].what = what}

\* The places at which object obj of a layer was drawn.
DrawsOfObject(what, obj) ==
    {i \in DrawsOf(what) : probe.draws[i].id = obj.id}

\* The objects of a layer that have a tile image.
WithImage(objects) ==
    {objects[i] : i \in {j \in 1 .. Len(objects) : objects[j].gid = 1}}

\* The y of the player's bottom row: player.y + player.height - 1.
ProbeBaseY == probe.y + Px(PlayerMask.height) - Px(1)

\* C22: every frame drawSceneAndEntities draws the player exactly once;
\* every foreground object with y <= player.y + player.height - 1 is drawn
\* before the player and every one with a greater y after it; all objects
\* of the Top layer are drawn after the player and after all foreground
\* objects.  (Drawn are the objects that have a tile image.)
C22_DrawOrder ==
    probe.called =>
        /\ Cardinality(DrawsOf("player")) = 1
        /\ \A obj \in WithImage(probe.foreground) :
              /\ Cardinality(DrawsOfObject("foreground", obj)) = 1
              /\ \A i \in DrawsOfObject("foreground", obj), j \in DrawsOf("player") :
                    IF obj.y <= ProbeBaseY THEN i < j ELSE i > j
        /\ \A obj \in WithImage(probe.top) :
              /\ Cardinality(DrawsOfObject("top", obj)) = 1
              /\ \A i \in DrawsOfObject("top", obj),
                    j \in DrawsOf("player") \cup DrawsOf("foreground") : i > j

\* A frame drew a foreground object of the file's second place before the
\* player, one of the first place after it, and a top object.
C22_Witness ==
    /\ probe.called
    /\ \E i \in DrawsOf("foreground"), j \in DrawsOf("player"),
          k \in DrawsOf("foreground") :
          i < j /\ j < k /\ probe.draws[i].id > probe.draws[k].id
    /\ DrawsOf("top") # {}

----------------------------------------------------------------------------
(* C23: the writers of the player and of the camera *)

\* A key event.
KeyEvent == \E k \in Keys : KeyDown(k) \/ KeyUp(k)

\* The fields of the player the claim is about.
Motion(p) == <<p.x, p.y, p.xVel, p.yVel, p.location>>

\* C23: the keydown and keyup handlers modify only keysPressed, and the
\* only code that writes player.x, player.y, xVel, yVel, location or the
\* camera outside the per-frame updatePlayerPosition and updateCamera is a
\* moveRebound timer callback, after the initialisation at startup; the
\* callback writes neither the location nor the camera.
C23_SingleWriter ==
    [][/\ KeyEvent =>
            UNCHANGED <<phase, world, player, camera, currentInteractable,
                        timers, audio>>
       /\ (Motion(player') # Motion(player) \/ camera' # camera) =>
            \/ LoopRuns
            \/ ClickStart
            \/ /\ \E i \in 1 .. MaxTimers : ReboundFire(i)
               /\ player'.location = player.location /\ camera' = camera]_vars

\* The game runs with no key held, and a rebound callback has just moved
\* the player.
C23_Witness ==
    /\ phase = "running"
    /\ ev.kind = "rebound"
    /\ Motion(player) # Motion(ev.pre)
    /\ keysPressed = NoKeys

----------------------------------------------------------------------------
(* C24: one interaction per activation edge *)

\* The step is a run of gameLoop that dispatched or rejected an interaction.
Interacted == LoopRuns /\ ev'.kind \in ActivationKinds /\ ev'.obj # 0

\* C24: after a frame dispatches or rejects an interaction keysPressed.space
\* is 0, and no interaction is dispatched in later frames until a keydown
\* event for the space key arrives, even if the player still overlaps an
\* interactable: a frame that finds the latch at 0 dispatches nothing, and
\* only that keydown raises the latch.
C24_OnePerEdge ==
    [][/\ Interacted => keysPressed'.space = 0
       /\ keysPressed.space = 0 => ~Interacted
       /\ (keysPressed.space = 0 /\ keysPressed'.space # 0) => KeyDown("space")]_vars

\* An interaction has left the player on the interactable, with the latch
\* at 0.
C24_Witness ==
    /\ phase = "running"
    /\ ev.kind \in {"unknown", "invalid"} /\ ev.obj # 0
    /\ Touched = ev.obj
    /\ keysPressed.space = 0

----------------------------------------------------------------------------
(* The loading specification: loadSounds and the promises it awaits *)

\* The keys of the music and of the sfx table.
SoundKeys == MusicBuffers \cup SoundBuffers

\* Before loadSounds is called: every entry of the tables is a path string
\* and no promise exists.
LoadInit ==
    /\ GameInit({MainWorld})
    /\ probe = [table |-> [k \in SoundKeys |-> "path"],
                promise |-> [k \in SoundKeys |-> "none"],
                loadSounds |-> "idle"]

\* loadSounds(audioEngine) up to its await (lines 1151-1176): the context
\* is created and a fetch is started for every key of both tables.
LoadSounds ==
    /\ probe.loadSounds = "idle"
    /\ audio' = InitContext(audio)
    /\ probe' = [probe EXCEPT !.promise = [k \in SoundKeys |-> "fetching"],
                              !.loadSounds = "awaiting"]
    /\ UNCHANGED gameVars

\* The fetch of key settles (lines 1165-1166): with a response whose body
\* goes on to be decoded, or with a rejection, which the catch of line 1172
\* takes, so that the promise pushed is fulfilled.
FetchSettles(key, ok) ==
    /\ probe.promise[key] = "fetching"
    /\ probe' = [probe EXCEPT
                    !.promise[key] = IF ok THEN "decoding" ELSE "caught"]
    /\ UNCHANGED <<gameVars, audio>>

\* decodeAudioData of key settles (lines 1167-1172): with an audio buffer,
\* which replaces the path in the table, or with a rejection, which the
\* catch takes.
DecodeSettles(key, ok) ==
    /\ probe.promise[key] = "decoding"
    /\ probe' = [probe EXCEPT
                    !.promise[key] = IF ok THEN "fulfilled" ELSE "caught",
                    !.table[key] = IF ok THEN "buffer" ELSE @]
    /\ UNCHANGED <<gameVars, audio>>

\* Promise.all(promises) (line 1177): fulfilled when every promise is, and
\* a promise whose rejection was caught is.
PromiseAll(promises) ==
    IF \A k \in SoundKeys : promises[k] \in {"fulfilled", "caught"}
        THEN "fulfilled"
    ELSE "pending"

\* The await of line 1177 ends and loadSounds resolves.
LoadResolves ==
    /\ probe.loadSounds = "awaiting"
    /\ PromiseAll(probe.promise) = "fulfilled"
    /\ probe' = [probe EXCEPT !.loadSounds = "resolved"]
    /\ UNCHANGED <<gameVars, audio>>

LoadNext ==
    \/ LoadSounds
    \/ \E key \in SoundKeys, ok \in BOOLEAN : FetchSettles(key, ok)
    \/ \E key \in SoundKeys, ok \in BOOLEAN : DecodeSettles(key, ok)
    \/ LoadResolves

SpecLoad == LoadInit /\ [][LoadNext]_vars

\* C25: when the promise returned by loadSounds resolves, every entry of
\* the music and sfx tables holds a decoded audio buffer, none is still a
\* path string, for every outcome of the fetch and decode operations.
C25_ResolvedMeansDecoded ==
    probe.loadSounds = "resolved" =>
        \A k \in SoundKeys : probe.table[k] = "buffer"

\* What holds instead: when loadSounds resolves every fetch and decode has
\* settled, and the entries that hold a buffer are those whose fetch and
\* decode both succeeded.
C25_ResolvedMeansSettled ==
    probe.loadSounds = "resolved" =>
        \A k \in SoundKeys :
            /\ probe.promise[k] \in {"fulfilled", "caught"}
            /\ probe.table[k] = "buffer" <=> probe.promise[k] = "fulfilled"

----------------------------------------------------------------------------
(* The controller specification: one sound and its controller *)

VoiceNext ==
    \/ \E loop \in BOOLEAN :
          audio.sounds = <<>> /\ PlaySound("door", loop, 0)
    \/ ControllerPlay(1)
    \/ ControllerPause(1)
    \/ \E fadeOut \in FadeOuts : ControllerStop(1, fadeOut)
    \/ StopTimerFire(1)
    \/ \E n \in 1 .. MaxNodes : SourceEnds(1, n)
    \/ \E n \in 1 .. MaxNodes : EndedDispatch(1, n)
    \/ \E next \in Instants : AudioTick(next)

SpecVoice == SoundInit /\ [][VoiceNext]_vars

\* The playback of the source the closure of sound s holds has run to the
\* end of its buffer.
EndedNaturally(s) == s.nodes[s.source].natural

\* C26: for a non-looping sound returned by playSound, the controller's
\* isPlaying() is false once the current playback has ended naturally, for
\* every playback of that controller, one restarted with play() after
\* pause() or stop() included.
C26_EndedMeansNotPlaying ==
    \A i \in 1 .. Len(audio.sounds) :
        (~audio.sounds[i].loop /\ EndedNaturally(audio.sounds[i]))
            => ~audio.sounds[i].isPlaying

\* The part of C26 about the playback that playSound itself starts.
C26_FirstPlaybackEnds ==
    \A i \in 1 .. Len(audio.sounds) :
        (~audio.sounds[i].loop /\ audio.sounds[i].source = 1
           /\ EndedNaturally(audio.sounds[i]))
            => ~audio.sounds[i].isPlaying

\* A source of sound s is sounding: started, not stopped and not at its end.
Audible(s) ==
    \E n \in 1 .. Len(s.nodes) :
        ~s.nodes[n].stopped /\ ~s.nodes[n].natural

\* The source a play() of the step has created on sound number i.
NewNode(i) == audio'.sounds[i].nodes[Len(audio'.sounds[i].nodes)]

Created(i) == Len(audio'.sounds[i].nodes) = Len(audio.sounds[i].nodes) + 1

\* C27, the protocol of a sound's controller under any interleaving of
\* stop(fadeOutTime), pause() and play() with the stop timer: pause()
\* records the elapsed offset and a following play() resumes from it; stop()
\* resets the offset to 0, so that a play() that follows its timer starts
\* from the beginning; play() while a source is sounding does nothing.
C27_ControllerProtocol ==
    [][\A i \in 1 .. Len(audio.sounds) :
         LET s == audio.sounds[i]
         IN  /\ (ControllerPause(i) /\ s.isPlaying)
                   => audio'.sounds[i].pauseOffset = audio.clock - s.startTime
             /\ (ControllerPlay(i) /\ s.pausedAt # -1)
                   => /\ Created(i)
                      /\ NewNode(i).offset
                            = DoubleRemainder(s.pausedAt,
                                              SoundDuration(s.buffer))
             /\ StopTimerFire(i) => audio'.sounds[i].pauseOffset = 0
             /\ (ControllerPlay(i) /\ ~s.isPlaying /\ s.pausedAt = -1)
                   => Created(i) /\ NewNode(i).offset = 0
             /\ (ControllerPlay(i) /\ Audible(s))
                   => audio'.sounds[i] = s]_vars

\* The parts of C27 that hold: what pause() records, what the stop timer
\* resets, that play() does nothing while isPlaying is set, and that it
\* otherwise starts a source at the offset the closure holds, modulo the
\* duration as line 1099 computes it.
C27_ClosureProtocol ==
    [][\A i \in 1 .. Len(audio.sounds) :
         LET s == audio.sounds[i]
         IN  /\ (ControllerPause(i) /\ s.isPlaying)
                   => audio'.sounds[i].pauseOffset = audio.clock - s.startTime
             /\ StopTimerFire(i) => audio'.sounds[i].pauseOffset = 0
             /\ (ControllerPlay(i) /\ s.isPlaying) => audio'.sounds[i] = s
             /\ (ControllerPlay(i) /\ ~s.isPlaying)
                   => /\ Created(i)
                      /\ NewNode(i).offset
                            = DoubleRemainder(s.pauseOffset,
                                              SoundDuration(s.buffer))]_vars

----------------------------------------------------------------------------
(* C28: the cooldown of playSound *)

\* No play of buffer b has been accepted in the timeout ms before now.
CooledDown(b, timeout, now) ==
    \A i \in 1 .. Len(audio.sounds) :
        audio.sounds[i].buffer = b => now - audio.sounds[i].created >= timeout

\* C28: a playSound call with timeout > 0 made at least timeout ms after
\* the last accepted play of the same buffer returns a controller; a
\* rejected call does not refresh the cooldown; a call with timeout = 0
\* neither consults nor records a cooldown; the cooldowns of different
\* buffers are independent.
C28_CooldownExpires ==
    [][\A b \in SoundBuffers, timeout \in SoundTimeouts :
         PlaySound(b, FALSE, timeout) =>
             /\ (timeout > 0 /\ CooledDown(b, timeout, audio.clock))
                   => audio'.last.result = "controller"
             /\ audio'.last.result = "null"
                   => audio'.soundCooldowns = audio.soundCooldowns
             /\ timeout = 0
                   => /\ audio'.last.result = "controller"
                      /\ audio'.soundCooldowns = audio.soundCooldowns
             /\ \A other \in SoundBuffers \ {b} :
                   audio'.soundCooldowns[other] = audio.soundCooldowns[other]]_vars

\* A call was accepted once the cooldown of an earlier accepted call of the
\* same buffer had run out, the other buffer having a cooldown of its own.
C28_Witness ==
    /\ audio.last.result = "controller" /\ audio.last.timeout > 0
    /\ \E g \in audio.grants :
          /\ g.buffer = audio.last.buffer /\ g.at > 0
          /\ g.at + audio.last.timeout <= audio.last.at
          /\ audio.soundCooldowns[g.buffer] = audio.last.at
    /\ \E other \in SoundBuffers \ {audio.last.buffer} :
          audio.soundCooldowns[other] \notin {NoEntry, audio.last.at}

----------------------------------------------------------------------------
(* C29: the fades of playMusic *)

\* The step is a call of playMusic by the page with the given fade-out.
CallsPlayMusic(fadeOut) ==
    \E track \in Tracks : PlayMusic(track[1], fadeOut, track[2])

\* The step creates a music source, starts it and makes it the music source.
StartsSource ==
    /\ Len(audio'.sources) = Len(audio.sources) + 1
    /\ audio'.musicSource = Len(audio'.sources)
    /\ Sounding(audio', audio'.musicSource)
    /\ audio'.musicStartTime = audio.clock

\* A call of playMusic while music is playing stops and starts nothing: it
\* sets a timer of at least the fade-out time, which time alone runs down,
\* and the old source is stopped and the new one started when it fires.
Crossfades ==
    /\ \A fadeOut \in FadeOuts :
          (CallsPlayMusic(fadeOut) /\ audio.musicSource # 0) =>
              /\ audio'.sources = audio.sources
              /\ audio'.musicSource = audio.musicSource
              /\ audio'.ramp = [set |-> "value", to |-> 0, over |-> fadeOut]
              /\ Len(audio'.tasks) = Len(audio.tasks) + 1
              /\ LET t == audio'.tasks[Len(audio'.tasks)]
                 IN  /\ t.kind = "playMusic" /\ t.left >= fadeOut
                     /\ t.oldSource = audio.musicSource
    /\ \A next \in Instants :
          AudioTick(next) =>
              \A i \in 1 .. Len(audio.tasks) :
                  audio'.tasks[i].left
                      = audio.tasks[i].left - (audio'.clock - audio.clock)
    /\ \A i \in 1 .. MaxTasks :
          (TaskFire(i) /\ audio.tasks[i].kind = "playMusic") =>
              /\ audio.tasks[i].left <= 0
              /\ audio'.sources[audio.tasks[i].oldSource].stopped
              /\ StartsSource
              /\ audio'.ramp.to = 1 /\ audio'.ramp.over = audio.tasks[i].fadeIn

\* C29: when playMusic is called while no music is playing, the music gain
\* is set to 0 at the start of the new track and ramps up to 1 over
\* fadeInTime; when it is called while music is playing, the old source is
\* stopped only after the fade-out time has elapsed and the new source
\* starts after that.
C29_FadeInFromZero ==
    [][/\ \A fadeOut \in FadeOuts :
            (CallsPlayMusic(fadeOut) /\ audio.musicSource = 0) =>
                /\ StartsSource
                /\ audio'.ramp = [set |-> "zero", to |-> 1,
                                  over |-> DefaultFadeIn]
       /\ Crossfades]_vars

\* What holds of C29: a call while no music is playing starts the track at
\* once and schedules the ramp to 1 over fadeInTime, from whatever the gain
\* is; and the crossfade of a call while music is playing.
C29_FadeInAndCrossfade ==
    [][/\ \A fadeOut \in FadeOuts :
            (CallsPlayMusic(fadeOut) /\ audio.musicSource = 0) =>
                /\ StartsSource
                /\ audio'.ramp = [set |-> "none", to |-> 1,
                                  over |-> DefaultFadeIn]
       /\ Crossfades]_vars

----------------------------------------------------------------------------
(* C30: getPosition, paused and stopped music *)

\* Engine e holds no music: no source, no buffer, no offset.
Silent(e) ==
    /\ e.musicSource = 0 /\ e.currentMusicBuffer = ""
    /\ e.musicPauseOffset = 0 /\ getPosition(e) = 0

\* Engine e holds paused music.
Paused(e) == e.musicSource = 0 /\ e.currentMusicBuffer # ""

\* Timer number i is the one of the latest pauseMusic, since whose call no
\* other music has started and no position was set.
IsPause(i) ==
    /\ i \in 1 .. Len(audio.tasks)
    /\ audio.tasks[i].kind = "pauseMusic"
    /\ \A j \in i + 1 .. Len(audio.tasks) : audio.tasks[j].kind # "pauseMusic"
    /\ audio.musicSource = audio.tasks[i].oldSource
    /\ ~audio.sources[audio.musicSource].stopped

IsStop(i) ==
    /\ i \in 1 .. Len(audio.tasks)
    /\ audio.tasks[i].kind = "stopMusic"

\* What C30 says of getPosition and of pauseMusic: getPosition returns 0
\* when no music buffer is set; when the timer of a pauseMusic has run it
\* returns the offset recorded at the pauseMusic call and keeps returning it
\* until music is started again or a position is set.
PauseKeepsPosition ==
    /\ audio.currentMusicBuffer = "" => getPosition(audio) = 0
    /\ \A i \in 1 .. MaxTasks :
          (IsPause(i) /\ TaskFire(i)) =>
              /\ Paused(audio')
              /\ getPosition(audio') = audio.tasks[i].seek
    /\ (Paused(audio) /\ Paused(audio')
          /\ ~(\E position \in Positions : SetPosition(position)))
          => getPosition(audio') = getPosition(audio)

\* C30: getPosition returns 0 when no music buffer is set; after pauseMusic
\* and its timer have completed it returns the offset recorded at the
\* pauseMusic call and keeps returning that value until music is started
\* again; after stopMusic and its timer have completed, musicSource and
\* currentMusicBuffer are null, the pause offset is 0 and getPosition
\* returns 0.
C30_PausedAndStopped ==
    [][/\ PauseKeepsPosition
       /\ \A i \in 1 .. MaxTasks : (IsStop(i) /\ TaskFire(i)) => Silent(audio')
       /\ \A fadeOut \in FadeOuts :
             (StopMusic(fadeOut) /\ audio.musicSource = 0) => Silent(audio')]_vars

\* What holds of C30: the part about getPosition and pauseMusic, and of
\* stopMusic that its timer leaves no music if it finds a music source.
C30_PausedAndStoppedPlaying ==
    [][/\ PauseKeepsPosition
       /\ \A i \in 1 .. MaxTasks :
             (IsStop(i) /\ TaskFire(i) /\ audio.musicSource # 0)
                 => Silent(audio')]_vars

----------------------------------------------------------------------------
(* The tile specification: the tileset loop of loadAssets *)

\* The tilesets a map file may name: the first gid and the ids of the tiles
\* that have an image.
Tilesets ==
    {[firstgid |-> 1, ids |-> <<0, 1>>], [firstgid |-> 3, ids |-> <<0>>]}

\* Bound of the harness: the tilesets of one map.
MaxTilesets == 2

\* mapData.tilesets of a map.
TilesetLists == UNION {[1 .. n -> Tilesets] : n \in 1 .. MaxTilesets}

\* The image loads tileset ts queues (lines 552-566) on top of requests when
\* game.tileImages holds the gids of tileImages: one for each tile from
\* number i on whose gid has no image yet.
RECURSIVE QueueTiles(_, _, _, _)
QueueTiles(ts, i, tileImages, requests) ==
    IF i > Len(ts.ids) THEN requests
    ELSE LET gid == ts.firstgid + ts.ids[i]
         IN  QueueTiles(ts, i + 1, tileImages,
                        IF gid \notin tileImages
                            THEN Append(requests, [gid |-> gid, loaded |-> FALSE])
                        ELSE requests)

\* loadAssets at the first await fetch(tsxPath) of its loop over the maps
\* (line 543): no image is cached or requested yet.
TileInit ==
    /\ GameInit({MainWorld})
    /\ probe \in {[maps |-> <<a, b>>, map |-> 1, tileset |-> 1,
                   tileImages |-> {}, requests |-> <<>>, done |-> FALSE] :
                    a \in TilesetLists, b \in TilesetLists}

\* The fetch of the current tileset resolves (lines 543-566): its tiles are
\* queued, and the loop goes on to the next tileset, or to the next map's.
TilesetFetched ==
    /\ probe.map <= Len(probe.maps)
    /\ LET tilesets == probe.maps[probe.map]
           last == probe.tileset = Len(tilesets)
       IN  probe' = [probe EXCEPT
                        !.requests = QueueTiles(tilesets[probe.tileset], 1,
                                                probe.tileImages, @),
                        !.tileset = IF last THEN 1 ELSE @ + 1,
                        !.map = IF last THEN @ + 1 ELSE @]
    /\ UNCHANGED <<gameVars, audio>>

\* The image load of request number r resolves (lines 562-564): the image
\* is added to game.tileImages under its gid.
TileImageLoads(r) ==
    /\ r \in 1 .. Len(probe.requests)
    /\ ~probe.requests[r].loaded
    /\ probe' = [probe EXCEPT
                    !.requests[r].loaded = TRUE,
                    !.tileImages = @ \cup {probe.requests[r].gid}]
    /\ UNCHANGED <<gameVars, audio>>

\* Promise.all(allAssetLoadPromises) resolves (line 577).
TilesLoaded ==
    /\ ~probe.done
    /\ probe.map > Len(probe.maps)
    /\ \A r \in 1 .. Len(probe.requests) : probe.requests[r].loaded
    /\ probe' = [probe EXCEPT !.done = TRUE]
    /\ UNCHANGED <<gameVars, audio>>

TileNext ==
    \/ TilesetFetched
    \/ \E r \in 1 .. 4 * MaxTilesets : TileImageLoads(r)
    \/ TilesLoaded

SpecTiles == TileInit /\ [][TileNext]_vars

\* The requests made for the image of gid.
RequestsOf(gid) ==
    {r \in 1 .. Len(probe.requests) : probe.requests[r].gid = gid}

\* C31: across all maps processed by loadAssets the image of a given gid is
\* requested at most once, whatever the order in which the pending image
\* loads resolve relative to the tileset fetches.
C31_RequestedOnce ==
    \A gid \in 1 .. 3 : Cardinality(RequestsOf(gid)) <= 1

\* What holds of C31: the image of a gid is not requested again once a load
\* of it has resolved.
C31_NotRequestedOnceLoaded ==
    [][TilesetFetched =>
         \A r \in Len(probe.requests) + 1 .. Len(probe'.requests) :
             probe'.requests[r].gid \notin probe.tileImages]_vars

----------------------------------------------------------------------------
(* C32: the deferred timers of stopMusic and pauseMusic *)

\* Timer number i is the one of a stopMusic or of a pauseMusic.
IsDeferredStop(i) ==
    /\ i \in 1 .. Len(audio.tasks)
    /\ audio.tasks[i].kind \in {"stopMusic", "pauseMusic"}

\* The music sources a step stops.
StoppedByStep ==
    {s \in 1 .. Len(audio.sources) :
        ~audio.sources[s].stopped /\ audio'.sources[s].stopped}

\* Timer number i fires while the music source is a track started after
\* the call that set the timer.
FiresOnLaterTrack(i) ==
    /\ IsDeferredStop(i)
    /\ audio.tasks[i].left <= 0
    /\ audio.musicSource > audio.tasks[i].oldSource

\* C32: the deferred timer of stopMusic(fadeOutTime) or
\* pauseMusic(fadeOutTime) stops only the source that was playing when the
\* call was made: a track started by playMusic after the call and before
\* the timer fires is not stopped or cleared by that timer.
C32_TimerStopsOwnSource ==
    [][\A i \in 1 .. MaxTasks :
          (IsDeferredStop(i) /\ TaskFire(i)) =>
              /\ StoppedByStep \subseteq {audio.tasks[i].oldSource}
              /\ audio.musicSource # audio.tasks[i].oldSource =>
                    /\ audio'.musicSource = audio.musicSource
                    /\ audio'.currentMusicBuffer = audio.currentMusicBuffer]_vars

\* What holds of C32: the timer stops and clears the music source set when
\* it fires, which is the source of the call if no track has been started
\* in between, and it does nothing when no music source is set.
C32_TimerStopsCurrentSource ==
    [][\A i \in 1 .. MaxTasks :
          (IsDeferredStop(i) /\ TaskFire(i)) =>
              /\ StoppedByStep \subseteq {audio.musicSource}
              /\ audio'.musicSource = 0
              /\ audio.musicSource = 0 =>
                    audio'.currentMusicBuffer = audio.currentMusicBuffer
              /\ ~FiresOnLaterTrack(i) =>
                    audio.musicSource \in {0, audio.tasks[i].oldSource}]_vars

----------------------------------------------------------------------------
(* C33: the velocity and the step of a frame are bounded *)

Abs(n) == IF n < 0 THEN -n ELSE n

\* Both velocities of player p are within the terminal velocity.
WithinTerminal(p) ==
    Abs(p.xVel) <= terminalVel /\ Abs(p.yVel) <= terminalVel

\* The result kinds of a frame that teleports the player.
Teleports == {"door", "move", "moveRebound"}

\* From p to q some coordinate changes by more than the terminal velocity.
Far(p, q) ==
    \/ Abs(q.x - p.x) > Px(terminalVel)
    \/ Abs(q.y - p.y) > Px(terminalVel)

\* C33: in every reachable state, after any sequence of key events, frames,
\* interactions and rebound callbacks, |player.xVel| <= player.terminalVel
\* and |player.yVel| <= player.terminalVel, and each frame changes each
\* coordinate of the player by at most terminalVel unless the frame
\* performs a teleport.
C33_VelocityBounded ==
    /\ WithinTerminal(player)
    /\ [][/\ WithinTerminal(player')
          /\ Far(player, player') =>
                ~(LoopRuns /\ ev'.kind \notin Teleports)]_vars

\* C33 happens: a frame of the movement physics has left the player at the
\* terminal velocity on both axes, away from the spawn point on both.
C33_Witness ==
    /\ ev.kind = "physics"
    /\ Abs(player.xVel) = terminalVel /\ Abs(player.yVel) = terminalVel
    /\ Abs(player.x - Px(SpawnX)) >= Px(2 * terminalVel)
    /\ Abs(player.y - Px(SpawnY)) >= Px(2 * terminalVel)

----------------------------------------------------------------------------
(* C34: the key latches *)

\* Under the latches keys every direction entry is 0, 1 or 2, and the two
\* entries of an axis are neither both 2 nor both 1.
LatchesConsistent(keys) ==
    \A k \in Directions :
        /\ keys[k] \in {0, 1, 2}
        /\ ~(keys[k] = 2 /\ keys[Opposite(k)] = 2)
        /\ ~(keys[k] = 1 /\ keys[Opposite(k)] = 1)

\* The entry of direction k is 1 after a step while the opposing entry is
\* not 2 only if k was overridden before the step and the step releases
\* the opposing key, or if that had happened already.
OverriddenThenReleased(k) ==
    (keysPressed'[k] = 1 /\ keysPressed'[Opposite(k)] # 2) =>
        /\ keysPressed[k] = 1
        /\ \/ keysPressed[Opposite(k)] = 2 /\ KeyUp(Opposite(k))
           \/ keysPressed[Opposite(k)] = 0 /\ keysPressed'[Opposite(k)] = 0

\* C34: after any sequence of keydown and keyup events (including repeated
\* keydown events of a held key), every direction entry of keysPressed is
\* 0, 1 or 2, the two opposing entries of an axis are never both 2 and
\* never both 1, and an entry is 1 only while the opposing entry is 2 or
\* was released after overriding it.
C34_KeyLatch ==
    /\ LatchesConsistent(keysPressed)
    /\ [][/\ LatchesConsistent(keysPressed')
          /\ \A k \in Directions : OverriddenThenReleased(k)]_vars

\* C34 happens: up was overridden by down and down was released, so that
\* up is 1 and down is 0, while the game runs.
C34_Witness ==
    /\ phase = "running"
    /\ keysPressed.up = 1 /\ keysPressed.down = 0

----------------------------------------------------------------------------
(* C35: the movement physics and blocked positions *)

\* checkWallCollision at the position of player p on its map.
Blocked(p) ==
    checkWallCollision(MapObject(world, p.location).collisionLayer,
                       PlayerMask, p.x, p.y)

\* The opaque pixels of the mask, as offsets from the player's position.
OpaquePixels(mask) ==
    {xy \in (0 .. mask.width - 1) \X (0 .. mask.height - 1) :
        mask.data[(xy[2] * mask.width + xy[1]) * 4 + 3] # 0}

\* Every opaque mask pixel of player p is on a cell of the collision bitmap
\* of its map, if the map has one.
InsideBitmap(p) ==
    LET layer == MapObject(world, p.location).collisionLayer
    IN  layer.present =>
            \A xy \in OpaquePixels(PlayerMask) :
                /\ MathRound(p.x + Px(xy[1])) \in 0 .. layer.width - 1
                /\ MathRound(p.y + Px(xy[2])) \in 0 .. layer.height - 1

\* C35: movement physics never moves the player into a blocked position: if
\* the player's position is collision-free (checkWallCollision false) at
\* the start of a frame that performs no interaction, it is collision-free
\* at the end of that frame, with every opaque mask pixel inside the
\* collision bitmap.
C35_NoMoveIntoWall ==
    [][(RunsPhysics /\ ~Blocked(player)) =>
           (~Blocked(player') /\ InsideBitmap(player'))]_vars

\* C35 happens: in a frame with two keys held a wall has refused the
\* vertical step and the horizontal step was taken, and the player stands
\* on a collision-free position.
C35_Witness ==
    /\ ev.kind = "physics"
    /\ ev.blockedY /\ ~ev.blockedX
    /\ player.xVel # 0 /\ player.yVel # 0
    /\ ~Blocked(player)

\* A position reached by a rebound is not checked: the callback has put the
\* player on a blocked position.
ReboundIntoWall == ev.kind = "rebound" /\ Blocked(player)

----------------------------------------------------------------------------
(* C36: the space latch waits for an interactable *)

\* Where player p stood one step of its velocity earlier.
StepBack(p) == [p EXCEPT !.x = @ - Px(p.xVel), !.y = @ - Px(p.yVel)]

\* C36: a space keydown made while the player overlaps no interactable stays
\* latched (keysPressed.space = 1) until the key is released: a frame that
\* finds no interactable keeps the latch, only keyup or an interaction
\* clears it, and if the player walks onto an interactable while the key is
\* still held, the interaction fires in that later frame without a new key
\* press.
C36_LatchWaits ==
    [][/\ (keysPressed.space = 1 /\ keysPressed'.space # 1)
             => (KeyUp("space") \/ Interacted)
       /\ (keysPressed.space = 1 /\ Touched = 0 /\ LoopRuns)
             => keysPressed'.space = 1
       /\ (Activates /\ LoopRuns) => (Interacted /\ ev'.obj = Touched)]_vars

\* C36 happens: the door has fired in a frame that found a direction key
\* held and the player moving, one step after a position that overlaps
\* nothing.
C36_Witness ==
    /\ ev.kind = "door" /\ ev.held
    /\ ev.pre.xVel # 0
    /\ checkInteractables(StepBack(ev.pre), PlayerMask,
                          MapObject(world, ev.pre.location)) = 0

----------------------------------------------------------------------------
(* C37: the indices checkWallCollision reads *)

NoReads == [mask |-> {}, tiles |-> {}]

\* The loops of checkWallCollision without the test against the map
\* boundaries: the reads they make.
RECURSIVE ScanReadsUnchecked(_, _, _, _, _)
ScanReadsUnchecked(layer, mask, playerX, playerY, i) ==
    IF i >= mask.width * mask.height THEN NoReads
    ELSE
        LET x == i % mask.width
            y == i \div mask.width
            playerPixelIndex == (y * mask.width + x) * 4
            tileIndex == MathRound(playerY + Px(y)) * layer.width
                            + MathRound(playerX + Px(x))
            rest == ScanReadsUnchecked(layer, mask, playerX, playerY, i + 1)
        IN  IF mask.data[playerPixelIndex + 3] = 0
                THEN [rest EXCEPT !.mask = @ \cup {playerPixelIndex + 3}]
            ELSE IF Data(layer, tileIndex) # 0
                THEN [mask |-> {playerPixelIndex + 3}, tiles |-> {tileIndex}]
            ELSE [mask |-> rest.mask \cup {playerPixelIndex + 3},
                  tiles |-> rest.tiles \cup {tileIndex}]

\* The reads the nested loops of checkWallCollision make from pixel number
\* i on (lines 593-611): the indices of player.collisionMap.data and those
\* of collisionLayer.data, up to the pixel that returns true.
RECURSIVE ScanReads(_, _, _, _, _)
ScanReads(layer, mask, playerX, playerY, i) ==
    IF i >= mask.width * mask.height THEN NoReads
    ELSE
        LET x == i % mask.width
            y == i \div mask.width
            playerPixelIndex == (y * mask.width + x) * 4
            mapX == MathRound(playerX + Px(x))
            mapY == MathRound(playerY + Px(y))
            tileIndex == mapY * layer.width + mapX
            rest == ScanReads(layer, mask, playerX, playerY, i + 1)
        IN  IF mask.data[playerPixelIndex + 3] = 0
                THEN [rest EXCEPT !.mask = @ \cup {playerPixelIndex + 3}]
            ELSE IF mapX < 0 \/ mapX >= layer.width \/ mapY < 0 \/ mapY >= layer.height
                THEN [mask |-> {playerPixelIndex + 3}, tiles |-> {}]
            ELSE IF Data(layer, tileIndex) # 0
                THEN [mask |-> {playerPixelIndex + 3}, tiles |-> {tileIndex}]
            ELSE [mask |-> rest.mask \cup {playerPixelIndex + 3},
                  tiles |-> rest.tiles \cup {tileIndex}]

\* The reads of one call of checkWallCollision: none without a collision
\* layer (line 591).
WallReads(layer, mask, playerX, playerY) ==
    IF ~layer.present THEN NoReads
    ELSE ScanReads(layer, mask, playerX, playerY, 0)

\* The reads of the call the harness has made.
ProbeReads == WallReads(probe.layer, probe.mask, probe.x, probe.y)

\* C37: whenever checkWallCollision reads the collision bitmap, the index
\* mapY * width + mapX is within [0, width * height), and every mask read
\* index (y * player.width + x) * 4 + 3 is within the mask buffer of size
\* player.width * player.height * 4; when the active map has no collision
\* layer the function returns false for every position.
C37_ReadsInBounds ==
    probe.called =>
        /\ ProbeReads.tiles \subseteq
              0 .. (probe.layer.width * probe.layer.height - 1)
        /\ ProbeReads.mask \subseteq
              0 .. (probe.mask.width * probe.mask.height * 4 - 1)
        /\ ProbeReads.mask \subseteq DOMAIN probe.mask.data
        /\ ~probe.layer.present => (~probe.verdict /\ ProbeReads = NoReads)

\* C37 happens: a call one pixel to the left of the bitmap has read a cell
\* under one opaque pixel and returned true at the next, which lies outside.
C37_Witness ==
    /\ probe.called /\ probe.layer.present
    /\ probe.x = -Px(1)
    /\ ProbeReads.tiles # {}
    /\ \A t \in ProbeReads.tiles : Data(probe.layer, t) = 0
    /\ probe.verdict

====
